---- MODULE Spec2Model ----
(***************************************************************************)
(* Batch scheduler and ordered dispatch engine of the substrate processor. *)
(*                                                                         *)
(* Part 1: the batch scheduler (createBatches, mergeBatches,               *)
(* mergeDataHandlers, mergeMaps), run one loop iteration at a time.        *)
(* Part 2: the processor and its runner (SubstrateProcessor.createBatches, *)
(* HandlerRunner.processBatch, HandlerRunner.processBlock), run one        *)
(* handler invocation at a time.                                           *)
(***************************************************************************)
EXTENDS Integers, Sequences, FiniteSets, TLC

\* ------------------------------------------------------------------ bounds
\* Largest number of hooks registered in one run of the scheduler.
MaxRegs == 3
\* Largest number of hooks in the runs that also draw a run range.
MaxClipRegs == 2
\* Block heights of the enumerated ranges are 0..MaxHeight.
MaxHeight == 2
\* Block heights of the ranges of the runs without a run range.
MaxSweepHeight == 1
\* Largest number of hooks registered before a run of the processor.
MaxRunRegs == 2
\* Block heights of the ranges of a run of the processor.
MaxRunHeight == 1

VARIABLES
    hooks,       \* Hooks: the registered hooks, one list per trigger type
    blockRange,  \* the blockRange argument of createBatches (or undefined)
    batches,     \* the argument of mergeBatches: one batch per surviving hook
    heap,        \* mergeBatches: the entries of the Heap<Batch>
    top,         \* mergeBatches: the current top (undefined outside the loop)
    union,       \* mergeBatches: the list of finalized batches
    result,      \* what mergeBatches returned (empty before it returns)
    first,       \* what the first call of mergeBatches returned, kept at the second
    calls,       \* the number of calls of mergeBatches so far
    pc,          \* position in createBatches / mergeBatches / the runner
    running,     \* SubstrateProcessor.running
    settings,    \* SubstrateProcessor: batchSize, prometheusPort, src, typesBundle
    thrown,      \* what the last configuration call threw (or undefined)
    lastBlock,   \* Runner.lastBlock: the watermark
    batchIndex,  \* the runner's position in the list of batches
    blocks,      \* processBatch: the blocks not yet done, the current one first
    tx,          \* the open transaction of the store: {from, to} (or undefined)
    committed,   \* the heights whose transaction committed, in commit order
    invoked,     \* processBlock: the handler invocations of the current block
    inflight,    \* the handler invocations started and not yet settled
    args,        \* the arguments of the call of a function under test
    returned,    \* what the function under test returned (or undefined)
    store,       \* the arrays and objects of the functions under test, by reference
    error        \* the error the run ended with (or undefined)

runVars == <<running, lastBlock, batchIndex, blocks, tx, committed, invoked, error>>

vars == <<hooks, blockRange, batches, heap, top, union, result, first, calls, pc,
          settings, thrown, inflight, args, returned, store,
          running, lastBlock, batchIndex, blocks, tx, committed, invoked, error>>

\* ------------------------------------------------------------------ values
\* JavaScript's undefined / null.
undefined == [undefined |-> TRUE]

Max(a, b) == IF a >= b THEN a ELSE b
Min(a, b) == IF a <= b THEN a ELSE b

\* A Range is {from, to?}: a record with or without the field "to".
HasTo(r) == "to" \in DOMAIN r

\* h is one of the heights of range r (inclusive bounds, no "to" = unbounded).
InRange(h, r) == r.from <= h /\ (HasTo(r) => h <= r.to)

\* ------------------------------------------------------- range arithmetic
\* rangeIntersection: max of the froms, min of the tos with a missing "to"
\* as +infinity, undefined when from exceeds to.
\* An intersection that takes ranges meeting in one height for disjoint.
rangeIntersectionOpen(a, b) ==
    LET beg == Max(a.from, b.from) IN
    IF HasTo(a) /\ HasTo(b)
    THEN IF beg >= Min(a.to, b.to) THEN undefined
         ELSE [from |-> beg, to |-> Min(a.to, b.to)]
    ELSE IF HasTo(a)
    THEN IF beg >= a.to THEN undefined ELSE [from |-> beg, to |-> a.to]
    ELSE IF HasTo(b)
    THEN IF beg >= b.to THEN undefined ELSE [from |-> beg, to |-> b.to]
    ELSE [from |-> beg]

rangeIntersection(a, b) ==
    LET beg == Max(a.from, b.from) IN
    IF HasTo(a) /\ HasTo(b)
    THEN IF beg > Min(a.to, b.to) THEN undefined
         ELSE [from |-> beg, to |-> Min(a.to, b.to)]
    ELSE IF HasTo(a)
    THEN IF beg > a.to THEN undefined ELSE [from |-> beg, to |-> a.to]
    ELSE IF HasTo(b)
    THEN IF beg > b.to THEN undefined ELSE [from |-> beg, to |-> b.to]
    ELSE [from |-> beg]

\* A difference whose left remainder ends where the intersection begins.
rangeDifferenceToEdge(a, b) ==
    LET i == rangeIntersection(a, b) IN
    IF i = undefined THEN <<a>>
    ELSE LET left == IF a.from < i.from
                     THEN <<[from |-> a.from, to |-> i.from]>>
                     ELSE <<>>
             right == IF HasTo(i) /\ (HasTo(a) => i.to < a.to)
                      THEN IF HasTo(a)
                           THEN <<[from |-> i.to + 1, to |-> a.to]>>
                           ELSE <<[from |-> i.to + 1]>>
                      ELSE <<>>
         IN left \o right

\* rangeDifference: the (0, 1 or 2) sub-ranges of a that b does not cover,
\* the left remainder first.
rangeDifference(a, b) ==
    LET i == rangeIntersection(a, b) IN
    IF i = undefined THEN <<a>>
    ELSE LET left == IF a.from < i.from
                     THEN <<[from |-> a.from, to |-> i.from - 1]>>
                     ELSE <<>>
             right == IF HasTo(i) /\ (HasTo(a) => i.to < a.to)
                      THEN IF HasTo(a)
                           THEN <<[from |-> i.to + 1, to |-> a.to]>>
                           ELSE <<[from |-> i.to + 1]>>
                      ELSE <<>>
         IN left \o right

\* ------------------------------------------------------------------- heap
\* Heap<Batch> with the comparator a.range.from - b.range.from.  The heap is
\* the collection of its entries; the root is an entry of least range.from,
\* and which one among several of equal range.from is left open.  Entries are
\* pairwise distinct (a handler stands for its registration, and the pieces
\* of one registration have different ranges), so the collection is a set.
HeapInit(arr) == {arr[i] : i \in 1..Len(arr)}

\* The entries heap.peek() / heap.pop() may return.
HeapMin(h) == {b \in h : \A c \in h : b.range.from <= c.range.from}

HeapPop(h, b) == h \ {b}

HeapPush(h, b) == h \cup {b}

RECURSIVE HeapPushAll(_, _, _)
HeapPushAll(h, ranges, handlers) ==
    IF ranges = <<>> THEN h
    ELSE HeapPushAll(HeapPush(h, [range |-> Head(ranges), handlers |-> handlers]),
                     Tail(ranges), handlers)

\* ------------------------------------------------------------ DataHandlers
\* {} of a Record<string, T> is the function with the empty domain.
EmptyMap == <<>>

EmptyHandlers ==
    [pre |-> <<>>, post |-> <<>>, events |-> EmptyMap, extrinsics |-> EmptyMap,
     evmLogs |-> EmptyMap]

\* A merge of two lists that keeps a's entries only.
concatKeepFirst(ha, hb) == ha

\* Concatenation with b's entries before a's.
concatSwapped(ha, hb) == hb \o ha

\* (ha, hb) => ha.concat(hb)
concat(ha, hb) == ha \o hb

\* mergeMaps without its second loop, over the keys of b.
RECURSIVE mergeMapsKeysOfA(_, _, _)
mergeMapsKeysOfA(a, b, mergeItems) ==
    [key \in DOMAIN a |->
        IF key \notin DOMAIN b THEN a[key]
        ELSE IF mergeItems = "concat" THEN concat(a[key], b[key])
        ELSE mergeMapsKeysOfA(a[key], b[key], "concat")]

\* mergeMaps(a, b, mergeItems).  mergeItems names the callback: "concat" is
\* (ha, hb) => ha.concat(hb), "mergeMaps" is
\* (ea, eb) => mergeMaps(ea, eb, (ha, hb) => ha.concat(hb)).
RECURSIVE mergeMaps(_, _, _)
mergeMaps(a, b, mergeItems) ==
    [key \in DOMAIN a \cup DOMAIN b |->
        IF key \in DOMAIN a
        THEN IF key \notin DOMAIN b THEN a[key]
             ELSE IF mergeItems = "concat" THEN concat(a[key], b[key])
             ELSE mergeMaps(a[key], b[key], "concat")
        ELSE b[key]]

\* mergeDataHandlers that leaves out the post hooks of b.
mergeDataHandlersPostOfA(a, b) ==
    [pre        |-> a.pre \o b.pre,
     post       |-> a.post,
     events     |-> mergeMaps(a.events, b.events, "concat"),
     extrinsics |-> mergeMaps(a.extrinsics, b.extrinsics, "mergeMaps"),
     evmLogs    |-> mergeMaps(a.evmLogs, b.evmLogs, "concat")]

mergeDataHandlers(a, b) ==
    [pre        |-> a.pre \o b.pre,
     post       |-> a.post \o b.post,
     events     |-> mergeMaps(a.events, b.events, "concat"),
     extrinsics |-> mergeMaps(a.extrinsics, b.extrinsics, "mergeMaps"),
     evmLogs    |-> mergeMaps(a.evmLogs, b.evmLogs, "concat")]

\* new DataHandlers(): every slot empty.  A slot {data, handlers} is modelled
\* by its handlers; the data selection of a hook plays no part in dispatch.
EmptyRequest ==
    [pre |-> <<>>, post |-> <<>>, events |-> EmptyMap, calls |-> EmptyMap,
     evmLogs |-> EmptyMap, contractsContractEmitted |-> EmptyMap,
     gearMessageEnqueued |-> EmptyMap, gearUserMessageSent |-> EmptyMap]

\* DataHandlers.merge: the slot-wise merge, a's entries before b's.
merge(a, b) ==
    [pre  |-> a.pre \o b.pre,
     post |-> a.post \o b.post,
     events  |-> mergeMaps(a.events, b.events, "concat"),
     calls   |-> mergeMaps(a.calls, b.calls, "concat"),
     evmLogs |-> mergeMaps(a.evmLogs, b.evmLogs, "concat"),
     contractsContractEmitted |->
        mergeMaps(a.contractsContractEmitted, b.contractsContractEmitted, "concat"),
     gearMessageEnqueued |->
        mergeMaps(a.gearMessageEnqueued, b.gearMessageEnqueued, "concat"),
     gearUserMessageSent |->
        mergeMaps(a.gearUserMessageSent, b.gearUserMessageSent, "concat")]

\* The merge callback of mergeBatches: mergeDataHandlers for the DataHandlers
\* of createBatches, (a, b) => a.merge(b) for the requests of the processor.
mergeHandlers(a, b) ==
    IF "extrinsics" \in DOMAIN a THEN mergeDataHandlers(a, b) ELSE merge(a, b)

\* ----------------------------------------------------------- createBatches
HasRange(hook) == "range" \in DOMAIN hook

\* getRange without the intersection with blockRange.
getRangeNoClip(hook, br) == IF HasRange(hook) THEN hook.range ELSE [from |-> 0]

\* getRange that takes blockRange itself when there is one.
getRangeOfRun(hook, br) ==
    IF br # undefined THEN br
    ELSE IF HasRange(hook) THEN hook.range ELSE [from |-> 0]

\* getRange whose default for a hook without range is the first block only.
getRangeDefaultFirst(hook, br) ==
    LET range == IF HasRange(hook) THEN hook.range ELSE [from |-> 0, to |-> 0] IN
    IF br # undefined THEN rangeIntersection(range, br) ELSE range

getRange(hook, br) ==
    LET range == IF HasRange(hook) THEN hook.range ELSE [from |-> 0] IN
    IF br # undefined THEN rangeIntersection(range, br) ELSE range

\* The DataHandlers of the singleton batch of one hook of each trigger type.
preHandlers(hook) == [EmptyHandlers EXCEPT !.pre = <<hook.handler>>]
postHandlers(hook) == [EmptyHandlers EXCEPT !.post = <<hook.handler>>]
eventHandlers(hook) == [EmptyHandlers EXCEPT !.events = hook.event :> <<hook.handler>>]
extrinsicHandlers(hook) ==
    [EmptyHandlers EXCEPT !.extrinsics = hook.event :> (hook.extrinsic :> <<hook.handler>>)]
evmLogHandlers(hook) ==
    [EmptyHandlers EXCEPT !.evmLogs =
        hook.contractAddress :> <<[filter |-> hook.filter, handler |-> hook.handler]>>]

\* The handlers literal of the forEach callback of the hook's list.
handlersOf(hook) ==
    CASE hook.kind = "pre" -> preHandlers(hook)
      [] hook.kind = "post" -> postHandlers(hook)
      [] hook.kind = "event" -> eventHandlers(hook)
      [] hook.kind = "extrinsic" -> extrinsicHandlers(hook)
      [] hook.kind = "evmLog" -> evmLogHandlers(hook)

\* hooks.<type>.forEach: one batch per hook whose clipped range is not empty.
forEachHook(list, br) ==
    LET kept == SelectSeq(list, LAMBDA hook : getRange(hook, br) # undefined) IN
    [i \in 1..Len(kept) |->
        [range |-> getRange(kept[i], br), handlers |-> handlersOf(kept[i])]]

\* The batches createBatches hands to mergeBatches.
singletonBatches(hs, br) ==
    forEachHook(hs.pre, br)
    \o forEachHook(hs.post, br)
    \o forEachHook(hs.event, br)
    \o forEachHook(hs.extrinsic, br)
    \o forEachHook(hs.evmLog, br)

\* ------------------------------------------------------------ mergeBatches
\* mergeBatches that returns only the empty list as is and sweeps a list of
\* one batch.
mergeBatchesEnterOne(bs) ==
    /\ batches' = bs
    /\ calls' = calls + 1
    /\ IF Len(bs) = 0
       THEN /\ result' = bs
            /\ pc' = "done"
            /\ UNCHANGED <<heap, top, union>>
       ELSE /\ \E t \in HeapMin(HeapInit(bs)) :
                 /\ top' = t
                 /\ heap' = HeapPop(HeapInit(bs), t)
            /\ union' = <<>>
            /\ result' = <<>>
            /\ pc' = "merge"

\* mergeBatches(bs) up to its first heap.pop(): zero or one batch is returned
\* as is, otherwise the heap is initialised with a copy of the list and the
\* first top is popped.
mergeBatchesEnter(bs) ==
    /\ batches' = bs
    /\ calls' = calls + 1
    /\ IF Len(bs) <= 1
       THEN /\ result' = bs
            /\ pc' = "done"
            /\ UNCHANGED <<heap, top, union>>
       ELSE /\ \E t \in HeapMin(HeapInit(bs)) :
                 /\ top' = t
                 /\ heap' = HeapPop(HeapInit(bs), t)
            /\ union' = <<>>
            /\ result' = <<>>
            /\ pc' = "merge"

\* createBatches(hooks, blockRange): the singleton batches are built and
\* handed to mergeBatches.
CreateBatches ==
    /\ pc = "start"
    /\ mergeBatchesEnter(singletonBatches(hooks, blockRange))
    /\ UNCHANGED <<store, args, returned, inflight, settings, thrown, hooks, blockRange, first>>
    /\ UNCHANGED runVars

\* A test that compares the starts of the two ranges instead of intersecting.
noIntersectionByFrom(t, batch) == t.range.from # batch.range.from

\* A test that also takes two equal ranges for disjoint.
noIntersectionOrEqual(t, batch) ==
    \/ rangeIntersection(t.range, batch.range) = undefined
    \/ t.range = batch.range

\* let i = rangeIntersection(top.range, batch.range); if (i == null)
noIntersection(t, batch) == rangeIntersection(t.range, batch.range) = undefined

\* The branch i == null with the peeked batch finalized instead of top.
MergeDisjointFinalizeBatch ==
    /\ pc = "merge"
    /\ \E batch \in HeapMin(heap) :
        /\ noIntersection(top, batch)
        /\ union' = Append(union, batch)
        /\ heap' = HeapPop(heap, batch)
    /\ UNCHANGED <<store, args, returned, inflight, settings, thrown, hooks, blockRange, batches, top, result, first, calls, pc>>
    /\ UNCHANGED runVars

\* The branch i == null with top pushed back on the heap instead of on the
\* union.
MergeDisjointRequeue ==
    /\ pc = "merge"
    /\ \E batch \in HeapMin(heap) :
        /\ noIntersection(top, batch)
        /\ top' = batch
        /\ heap' = HeapPush(HeapPop(heap, batch), top)
    /\ UNCHANGED <<store, args, returned, inflight, settings, thrown, hooks, blockRange, batches, union, result, first, calls, pc>>
    /\ UNCHANGED runVars

\* One iteration of the while loop, branch i == null: top is finalized and the
\* peeked batch becomes the new top.
MergeDisjoint ==
    /\ pc = "merge"
    /\ \E batch \in HeapMin(heap) :
        /\ noIntersection(top, batch)
        /\ union' = Append(union, top)
        /\ top' = batch
        /\ heap' = HeapPop(heap, batch)
    /\ UNCHANGED <<store, args, returned, inflight, settings, thrown, hooks, blockRange, batches, result, first, calls, pc>>
    /\ UNCHANGED runVars

\* The pushes with the leftovers of batch given the handlers of top.
pushSplitTopHandlers(h, batch, t) ==
    LET x == rangeIntersection(t.range, batch.range)
        h1 == HeapPop(h, batch)
        h2 == HeapPushAll(h1, rangeDifference(t.range, x), t.handlers)
        h3 == HeapPushAll(h2, rangeDifference(batch.range, x), t.handlers)
    IN HeapPush(h3, [range |-> x,
                     handlers |-> mergeHandlers(t.handlers, batch.handlers)])

\* The pushes of the else branch with the whole range of top pushed back in
\* place of its leftovers.
pushSplitWholeTop(h, batch, t) ==
    LET x == rangeIntersection(t.range, batch.range)
        h1 == HeapPop(h, batch)
        h2 == HeapPushAll(h1, <<t.range>>, t.handlers)
        h3 == HeapPushAll(h2, rangeDifference(batch.range, x), batch.handlers)
    IN HeapPush(h3, [range |-> x,
                     handlers |-> mergeHandlers(t.handlers, batch.handlers)])

\* The pushes of the else branch without the heap.pop() before them.
pushSplitKeepBatch(h, batch, t) ==
    LET x == rangeIntersection(t.range, batch.range)
        h2 == HeapPushAll(h, rangeDifference(t.range, x), t.handlers)
        h3 == HeapPushAll(h2, rangeDifference(batch.range, x), batch.handlers)
    IN HeapPush(h3, [range |-> x,
                     handlers |-> mergeHandlers(t.handlers, batch.handlers)])

\* The heap after the pushes of the else branch: batch popped, the leftovers
\* of top, the leftovers of batch, then the merged intersection.
pushSplit(h, batch, t) ==
    LET x == rangeIntersection(t.range, batch.range)
        h1 == HeapPop(h, batch)
        h2 == HeapPushAll(h1, rangeDifference(t.range, x), t.handlers)
        h3 == HeapPushAll(h2, rangeDifference(batch.range, x), batch.handlers)
    IN HeapPush(h3, [range |-> x,
                     handlers |-> mergeHandlers(t.handlers, batch.handlers)])

\* One iteration of the while loop, branch i != null.
MergeIntersect ==
    /\ pc = "merge"
    /\ \E batch \in HeapMin(heap) :
        /\ ~noIntersection(top, batch)
        /\ LET h4 == pushSplit(heap, batch, top) IN
           \E t \in HeapMin(h4) :
                /\ top' = t
                /\ heap' = HeapPop(h4, t)
    /\ UNCHANGED <<store, args, returned, inflight, settings, thrown, hooks, blockRange, batches, union, result, first, calls, pc>>
    /\ UNCHANGED runVars

\* The end of the loop without the push of the last top.
MergeFinishDropTop ==
    /\ pc = "merge"
    /\ heap = {}
    /\ result' = union
    /\ pc' = "done"
    /\ UNCHANGED <<store, args, returned, inflight, settings, thrown, hooks, blockRange, batches, heap, top, union, first, calls>>
    /\ UNCHANGED runVars

\* heap.peek() is undefined: the loop ends, the last top is finalized and the
\* union is returned.
MergeFinish ==
    /\ pc = "merge"
    /\ heap = {}
    /\ union' = Append(union, top)
    /\ result' = union'
    /\ pc' = "done"
    /\ UNCHANGED <<store, args, returned, inflight, settings, thrown, hooks, blockRange, batches, heap, top, first, calls>>
    /\ UNCHANGED runVars

\* mergeBatches applied to the list a first run returned.
MergeAgain ==
    /\ pc = "done"
    /\ calls = 1
    /\ first' = result
    /\ mergeBatchesEnter(result)
    /\ UNCHANGED <<store, args, returned, inflight, settings, thrown, hooks, blockRange>>
    /\ UNCHANGED runVars

\* ------------------------------------------------------------------ inputs
\* The ranges {from, to} and {from} with bounds in 0..max.
RangesTo(max) ==
    {r \in [from : 0..max, to : 0..max] : r.from <= r.to}
    \cup {[from |-> f] : f \in 0..max}

Ranges == RangesTo(MaxHeight)

\* The trigger of a hook: its type and its key.
preHook == [kind |-> "pre"]
postHook == [kind |-> "post"]
eventHook(e) == [kind |-> "event", event |-> e]
extrinsicHook(e, x) == [kind |-> "extrinsic", event |-> e, extrinsic |-> x]
evmLogHook(a) == [kind |-> "evmLog", contractAddress |-> a, filter |-> undefined]

\* The triggers of the hooks of a run with a run range, by registration
\* number: two events, the block hooks and an event, the extrinsic hooks, the
\* EVM log hooks.
ClipLayouts ==
    {[i \in 1..MaxClipRegs |-> IF i % 2 = 1 THEN eventHook("E1") ELSE eventHook("E2")],
     [i \in 1..MaxClipRegs |->
        IF i % 3 = 1 THEN preHook ELSE IF i % 3 = 2 THEN postHook ELSE eventHook("E1")],
     [i \in 1..MaxClipRegs |->
        IF i % 3 = 1 THEN extrinsicHook("E1", "X1")
        ELSE IF i % 3 = 2 THEN extrinsicHook("E1", "X2")
        ELSE extrinsicHook("E2", "X1")],
     [i \in 1..MaxClipRegs |->
        IF i % 3 = 0 THEN evmLogHook("0xb") ELSE evmLogHook("0xa")]}

\* The n-th registered hook: its handler is identified by n.
mkHook(shape, n, range) ==
    shape @@ ("handler" :> n)
          @@ (IF range = undefined THEN <<>> ELSE "range" :> range)

ofKind(regs, kind) == SelectSeq(regs, LAMBDA hook : hook.kind = kind)

mkHooks(regs) ==
    [pre |-> ofKind(regs, "pre"), post |-> ofKind(regs, "post"),
     event |-> ofKind(regs, "event"), extrinsic |-> ofKind(regs, "extrinsic"),
     evmLog |-> ofKind(regs, "evmLog")]

\* No function is under test.
NoCall == args = undefined /\ returned = undefined /\ store = <<>>

\* The fields of a SubstrateProcessor other than hooks and blockRange, as
\* declared.
DefaultSettings ==
    [batchSize |-> 100, prometheusPort |-> undefined, src |-> undefined,
     typesBundle |-> undefined]

\* The processor and its runner before run(): nothing set, nothing
\* processed.
InitRunner ==
    /\ running = FALSE
    /\ settings = DefaultSettings
    /\ thrown = undefined
    /\ inflight = {}
    /\ NoCall
    /\ lastBlock = -1
    /\ batchIndex = 1
    /\ blocks = <<>>
    /\ tx = undefined
    /\ committed = <<>>
    /\ invoked = <<>>
    /\ error = undefined

InitMerge ==
    /\ batches = <<>>
    /\ heap = {}
    /\ top = undefined
    /\ union = <<>>
    /\ result = <<>>
    /\ first = <<>>
    /\ calls = 0
    /\ pc = "start"
    /\ InitRunner

\* Up to MaxRegs handlers of one event, each with any range, and no run range.
InitSweep ==
    /\ \E n \in 0..MaxRegs :
        \E ranges \in [1..n -> RangesTo(MaxSweepHeight)] :
            hooks = mkHooks([i \in 1..n |-> mkHook(eventHook("E1"), i, ranges[i])])
    /\ blockRange = undefined
    /\ InitMerge

\* Up to MaxRegs handlers of one event whose ranges start at pairwise
\* different heights, and no run range.
InitOrder ==
    /\ \E n \in 0..MaxRegs :
        \E ranges \in [1..n -> Ranges] :
            /\ \A i, j \in 1..n : i # j => ranges[i].from # ranges[j].from
            /\ hooks = mkHooks([i \in 1..n |-> mkHook(eventHook("E1"), i, ranges[i])])
    /\ blockRange = undefined
    /\ InitMerge

\* The example of two handlers of one event over [0,99] and [50,150].
ExampleHooks ==
    mkHooks(<<mkHook(eventHook("E1"), 1, [from |-> 0, to |-> 99]),
              mkHook(eventHook("E1"), 2, [from |-> 50, to |-> 150])>>)

InitExample ==
    /\ hooks = ExampleHooks
    /\ blockRange = undefined
    /\ InitMerge

\* Up to MaxClipRegs hooks of every trigger type, and any run range or none.
InitClip ==
    /\ \E n \in 0..MaxClipRegs, layout \in ClipLayouts :
        \E ranges \in [1..n -> Ranges \cup {undefined}] :
            hooks = mkHooks([i \in 1..n |-> mkHook(layout[i], i, ranges[i])])
    /\ blockRange \in Ranges \cup {undefined}
    /\ InitMerge

\* Up to MaxClipRegs hooks of every trigger type, each without range or with
\* a range up to MaxSweepHeight, and such a run range or none.
InitDefault ==
    /\ \E n \in 0..MaxClipRegs, layout \in ClipLayouts :
        \E ranges \in [1..n -> RangesTo(MaxSweepHeight) \cup {undefined}] :
            hooks = mkHooks([i \in 1..n |-> mkHook(layout[i], i, ranges[i])])
    /\ blockRange \in RangesTo(MaxSweepHeight) \cup {undefined}
    /\ InitMerge

\* Most batches of a sweep that is followed to its end.
MaxFairRegs == 2

\* Up to MaxFairRegs handlers of one event, each with any range, and no run
\* range: among them lists of ranges without to and of ranges with the same
\* from.
InitFair ==
    /\ \E n \in 0..MaxFairRegs :
        \E ranges \in [1..n -> RangesTo(MaxSweepHeight)] :
            hooks = mkHooks([i \in 1..n |-> mkHook(eventHook("E1"), i, ranges[i])])
    /\ blockRange = undefined
    /\ InitMerge

Init == InitSweep \/ InitExample

Next ==
    \/ CreateBatches
    \/ MergeDisjoint
    \/ MergeIntersect
    \/ MergeFinish

Spec == Init /\ [][Next]_vars

\* The sweep with every iteration of its loop taken in the end: the loop of
\* mergeBatches is synchronous code that runs on until it returns.
SpecSweep == InitFair /\ [][Next]_vars /\ WF_vars(Next)

\* The sweep over the handlers of one event alone.
SpecPieces == InitSweep /\ [][Next]_vars

SpecClip == InitClip /\ [][Next]_vars

SpecOrder == InitOrder /\ [][Next]_vars

SpecDefault == InitDefault /\ [][Next]_vars

NextAgain == Next \/ MergeAgain

SpecAgain == InitClip /\ [][NextAgain]_vars

\* ===================================================================
\* Part 2: SubstrateProcessor and HandlerRunner
\* ===================================================================
\* getRange of SubstrateProcessor.createBatches with the hook's range ignored.
processorGetRangeAll(hook) == [from |-> 0]

\* getRange of SubstrateProcessor.createBatches: hook.range || {from: 0}
processorGetRange(hook) == IF HasRange(hook) THEN hook.range ELSE [from |-> 0]

\* The request of the forEach callback of the hook's list.
requestOf(hook) ==
    CASE hook.kind = "pre" -> [EmptyRequest EXCEPT !.pre = <<hook.handler>>]
      [] hook.kind = "post" -> [EmptyRequest EXCEPT !.post = <<hook.handler>>]
      [] hook.kind = "event" ->
            [EmptyRequest EXCEPT !.events = hook.event :> <<hook.handler>>]
      [] hook.kind = "call" ->
            [EmptyRequest EXCEPT !.calls = hook.call :>
                <<[handler |-> hook.handler,
                   triggerForFailedCalls |-> hook.triggerForFailedCalls]>>]
      [] hook.kind = "evmLog" ->
            [EmptyRequest EXCEPT !.evmLogs = hook.contractAddress :>
                <<[filter |-> hook.filter, handler |-> hook.handler]>>]
      [] hook.kind = "contractsContractEmitted" ->
            [EmptyRequest EXCEPT !.contractsContractEmitted =
                hook.contractAddress :> <<hook.handler>>]
      [] hook.kind = "gearMessageEnqueued" ->
            [EmptyRequest EXCEPT !.gearMessageEnqueued = hook.programId :> <<hook.handler>>]
      [] hook.kind = "gearUserMessageSent" ->
            [EmptyRequest EXCEPT !.gearUserMessageSent = hook.programId :> <<hook.handler>>]

\* this.hooks.<type>.forEach: one batch per hook, its range not yet clipped.
\* (The field "request" of a Batch is called "handlers" here as in Part 1.)
pushRequests(list) ==
    [i \in 1..Len(list) |->
        [range |-> processorGetRange(list[i]), handlers |-> requestOf(list[i])]]

\* applyRangeBound: every batch clipped to the range, the empty ones dropped.
applyRangeBound(bs, range) ==
    LET kept == SelectSeq(bs, LAMBDA b : rangeIntersection(b.range, range) # undefined) IN
    [i \in 1..Len(kept) |->
        [range |-> rangeIntersection(kept[i].range, range),
         handlers |-> kept[i].handlers]]

\* The batches SubstrateProcessor.createBatches hands to mergeBatches.
processorBatches(hs, br) ==
    applyRangeBound(
        pushRequests(hs.pre) \o pushRequests(hs.post) \o pushRequests(hs.event)
        \o pushRequests(hs.call) \o pushRequests(hs.evmLog)
        \o pushRequests(hs.contractsContractEmitted)
        \o pushRequests(hs.gearMessageEnqueued)
        \o pushRequests(hs.gearUserMessageSent),
        br)

\* ------------------------------------------------------------ processBlock
\* The handlers of a list of entries {handler, ...}.
HandlersOfEntries(entries) == [i \in DOMAIN entries |-> entries[i].handler]

\* The handlers of the event's name before the handlers of '*'.
getEventHandlersNameFirst(handlers, event) ==
    (IF event.name \in DOMAIN handlers.events
     THEN handlers.events[event.name] ELSE <<>>)
    \o (IF "*" \in DOMAIN handlers.events THEN handlers.events["*"] ELSE <<>>)

\* handlers.events['*'] then handlers.events[event.name]
getEventHandlers(handlers, event) ==
    (IF "*" \in DOMAIN handlers.events THEN handlers.events["*"] ELSE <<>>)
    \o (IF event.name \in DOMAIN handlers.events
        THEN handlers.events[event.name] ELSE <<>>)

\* handlers.calls['*'] then handlers.calls[call.name]
getCallHandlers(handlers, call) ==
    (IF "*" \in DOMAIN handlers.calls THEN handlers.calls["*"] ELSE <<>>)
    \o (IF call.name \in DOMAIN handlers.calls
        THEN handlers.calls[call.name] ELSE <<>>)

\* The test of one position that takes a position past the end of the log's
\* topics to match.
topicMatchesPastEnd(set, topics, i) ==
    CASE set.kind = "null" -> TRUE
      [] set.kind = "array" -> i \notin DOMAIN topics \/ topics[i] \in set.values
      [] set.kind = "topic" -> i \notin DOMAIN topics \/ topics[i] = set.value

\* A topic set is null, an array of topics or one topic; topics[i] past the
\* end of the log's topics is undefined and equals no topic.
topicMatches(set, topics, i) ==
    CASE set.kind = "null" -> TRUE
      [] set.kind = "array" -> i \in DOMAIN topics /\ topics[i] \in set.values
      [] set.kind = "topic" -> i \in DOMAIN topics /\ topics[i] = set.value

\* A hook's filter is undefined or [sets |-> <<topic set, ...>>].
evmHandlerMatches(handler, log) ==
    IF handler.filter = undefined THEN TRUE
    ELSE \A i \in DOMAIN handler.filter.sets :
            topicMatches(handler.filter.sets[i], log.topics, i)

getEvmLogHandlers(evmLogs, event) ==
    IF event.name # "EVM.Log" THEN <<>>
    ELSE IF event.address \notin DOMAIN evmLogs THEN <<>>
    ELSE LET hs == SelectSeq(evmLogs[event.address],
                             LAMBDA h : evmHandlerMatches(h, event)) IN
         [i \in DOMAIN hs |-> hs[i].handler]

\* getContractEmittedHandlers without the test of the event's name.
getContractEmittedHandlersAnyName(handlers, event) ==
    IF event.contract \notin DOMAIN handlers.contractsContractEmitted THEN <<>>
    ELSE handlers.contractsContractEmitted[event.contract]

getContractEmittedHandlers(handlers, event) ==
    IF event.name # "Contracts.ContractEmitted" THEN <<>>
    ELSE IF event.contract \notin DOMAIN handlers.contractsContractEmitted THEN <<>>
    ELSE handlers.contractsContractEmitted[event.contract]

getGearMessageEnqueuedHandlers(handlers, event) ==
    IF event.name # "Gear.MessageEnqueued" THEN <<>>
    ELSE IF event.destination \notin DOMAIN handlers.gearMessageEnqueued THEN <<>>
    ELSE handlers.gearMessageEnqueued[event.destination]

getGearUserMessageSentHandlers(handlers, event) ==
    IF event.name # "Gear.UserMessageSent" THEN <<>>
    ELSE IF event.source \notin DOMAIN handlers.gearUserMessageSent THEN <<>>
    ELSE handlers.gearUserMessageSent[event.source]

\* The invocations of a list of handlers: the hook of the logger, the handler,
\* the position of the item in the block's log (0 for the block hooks) and the
\* block's height.
invocations(hs, hook, item, height) ==
    [i \in DOMAIN hs |->
        [hook |-> hook, handler |-> hs[i], item |-> item, height |-> height]]

\* case 'event': the five loops over the handlers of one event.
eventInvocations(handlers, event, n, height) ==
    invocations(getEventHandlers(handlers, event), "event", n, height)
    \o invocations(getEvmLogHandlers(handlers.evmLogs, event), "evm-log", n, height)
    \o invocations(getContractEmittedHandlers(handlers, event), "contract-emitted", n, height)
    \o invocations(getGearMessageEnqueuedHandlers(handlers, event),
                   "gear-message-enqueued", n, height)
    \o invocations(getGearUserMessageSentHandlers(handlers, event),
                   "gear-message-sent", n, height)

\* case 'call' without the test of success and flag.
callInvocationsAll(handlers, call, n, height) ==
    invocations(HandlersOfEntries(getCallHandlers(handlers, call)), "call", n, height)

\* case 'call': the entries with item.call.success || handler.triggerForFailedCalls
callInvocations(handlers, call, n, height) ==
    LET hs == SelectSeq(getCallHandlers(handlers, call),
                        LAMBDA h : call.success \/ h.triggerForFailedCalls) IN
    invocations([i \in DOMAIN hs |-> hs[i].handler], "call", n, height)

\* A walk over the items that handles the last item first.
RECURSIVE itemInvocationsBackwards(_, _, _, _)
itemInvocationsBackwards(handlers, items, n, height) ==
    IF n > Len(items) THEN <<>>
    ELSE itemInvocationsBackwards(handlers, items, n + 1, height)
         \o (IF items[n].kind = "event"
             THEN eventInvocations(handlers, items[n].event, n, height)
             ELSE callInvocations(handlers, items[n].call, n, height))

RECURSIVE itemInvocations(_, _, _, _)
itemInvocations(handlers, items, n, height) ==
    IF n > Len(items) THEN <<>>
    ELSE (IF items[n].kind = "event"
          THEN eventInvocations(handlers, items[n].event, n, height)
          ELSE callInvocations(handlers, items[n].call, n, height))
         \o itemInvocations(handlers, items, n + 1, height)

\* processBlock that returns at once for a block without items.
processBlockSkipEmpty(handlers, block) ==
    IF block.items = <<>> THEN <<>>
    ELSE invocations(handlers.pre, "pre", 0, block.header.height)
         \o itemInvocations(handlers, block.items, 1, block.header.height)
         \o invocations(handlers.post, "post", 0, block.header.height)

\* The handler invocations of processBlock(handlers, chain, store, block), in
\* the order of the awaits, when no handler throws.
processBlock(handlers, block) ==
    invocations(handlers.pre, "pre", 0, block.header.height)
    \o itemInvocations(handlers, block.items, 1, block.header.height)
    \o invocations(handlers.post, "post", 0, block.header.height)

\* ------------------------------------------------------------------ runner
\* SubstrateProcessor.run(): a second call returns at once; the first sets
\* running and starts the runner, whose watermark begins one below the first
\* height of the run.
Run ==
    /\ pc = "config"
    /\ ~running
    /\ running' = TRUE
    /\ lastBlock' = blockRange.from - 1
    /\ pc' = "start"
    /\ UNCHANGED <<store, args, returned, inflight, settings, thrown, hooks, blockRange, batches, heap, top, union, result, first, calls>>
    /\ UNCHANGED <<batchIndex, blocks, tx, committed, invoked, error>>

\* SubstrateProcessor.createBatches(blockRange): the requests of the hooks,
\* bound to the run range, are handed to mergeBatches.
ProcessorCreateBatches ==
    /\ pc = "start"
    /\ running
    /\ mergeBatchesEnter(processorBatches(hooks, blockRange))
    /\ UNCHANGED <<store, args, returned, inflight, settings, thrown, hooks, blockRange, first>>
    /\ UNCHANGED runVars

\* The last height of the chain the source serves.
ChainHead == MaxRunHeight + 1

event(name) == [kind |-> "event", event |-> [name |-> name]]
call(name, success) == [kind |-> "call", call |-> [name |-> name, success |-> success]]

\* The item logs a block may carry.
ItemLogs ==
    {<<event("E1"), call("C1", TRUE)>>,
     <<call("C1", FALSE), event("E2")>>}

\* The source: the blocks of the chain whose height lies in the range, in
\* ascending order of height.  The item log of a block is drawn when the
\* block's turn comes; nothing reads it before.
BlocksIn(range) ==
    LET lo == range.from
        hi == IF HasTo(range) THEN Min(range.to, ChainHead) ELSE ChainHead
    IN [i \in 1..(hi - lo + 1) |->
            [header |-> [height |-> lo + i - 1, hash |-> lo + i - 1]]]

\* The runner takes the next batch and the source delivers its blocks, which
\* are handed to processBatch.
FetchBlocks ==
    /\ pc = "done"
    /\ running
    /\ batchIndex <= Len(result)
    /\ blocks' = BlocksIn(result[batchIndex].range)
    /\ pc' = "processBatch"
    /\ UNCHANGED <<store, args, returned, inflight, settings, thrown, hooks, blockRange, batches, heap, top, union, result, first, calls>>
    /\ UNCHANGED <<running, lastBlock, batchIndex, tx, committed, invoked, error>>

\* No batch is left: the run completes.
RunFinished ==
    /\ pc = "done"
    /\ running
    /\ batchIndex > Len(result)
    /\ pc' = "finished"
    /\ UNCHANGED <<store, args, returned, inflight, settings, thrown, hooks, blockRange, batches, heap, top, union, result, first, calls>>
    /\ UNCHANGED runVars

\* The head of the loop body without the assertion on the watermark.
beginBlockNoAssert(logs) ==
    /\ pc = "processBatch"
    /\ blocks # <<>>
    /\ \E items \in logs :
            blocks' = <<[header |-> Head(blocks).header, items |-> items]>>
                      \o Tail(blocks)
    /\ tx' = [from |-> Head(blocks).header.height, to |-> Head(blocks).header.height]
    /\ invoked' = <<>>
    /\ pc' = "processBlock"
    /\ UNCHANGED <<store, args, returned, inflight, settings, thrown, hooks, blockRange, batches, heap, top, union, result, first, calls>>
    /\ UNCHANGED <<running, lastBlock, batchIndex, committed, error>>

\* The head of the loop body with the transaction opened from the height
\* after the watermark to the block's height.
beginBlockFromWatermark(logs) ==
    /\ pc = "processBatch"
    /\ blocks # <<>>
    /\ LET height == Head(blocks).header.height IN
       IF lastBlock < height
       THEN /\ \E items \in logs :
                    blocks' = <<[header |-> Head(blocks).header, items |-> items]>>
                              \o Tail(blocks)
            /\ tx' = [from |-> lastBlock + 1, to |-> height]
            /\ invoked' = <<>>
            /\ pc' = "processBlock"
            /\ UNCHANGED error
       ELSE /\ error' = [assertion |-> "lastBlock < block.header.height"]
            /\ pc' = "failed"
            /\ UNCHANGED <<blocks, tx, invoked>>
    /\ UNCHANGED <<store, args, returned, inflight, settings, thrown, hooks, blockRange, batches, heap, top, union, result, first, calls>>
    /\ UNCHANGED <<running, lastBlock, batchIndex, committed>>

\* processBatch, the head of the loop body: the assertion on the watermark,
\* then transact(height, height, ...) opens the block's transaction.  The
\* block's item log is one of logs.
beginBlock(logs) ==
    /\ pc = "processBatch"
    /\ blocks # <<>>
    /\ LET height == Head(blocks).header.height IN
       IF lastBlock < height
       THEN /\ \E items \in logs :
                    blocks' = <<[header |-> Head(blocks).header, items |-> items]>>
                              \o Tail(blocks)
            /\ tx' = [from |-> height, to |-> height]
            /\ invoked' = <<>>
            /\ pc' = "processBlock"
            /\ UNCHANGED error
       ELSE /\ error' = [assertion |-> "lastBlock < block.header.height"]
            /\ pc' = "failed"
            /\ UNCHANGED <<blocks, tx, invoked>>
    /\ UNCHANGED <<store, args, returned, inflight, settings, thrown, hooks, blockRange, batches, heap, top, union, result, first, calls>>
    /\ UNCHANGED <<running, lastBlock, batchIndex, committed>>

BeginBlock == beginBlock(ItemLogs)

\* The invocations of the current block that are still to come.
Pending ==
    LET all == processBlock(result[batchIndex].handlers, Head(blocks)) IN
    SubSeq(all, Len(invoked) + 1, Len(all))

\* processBlock: the next handler is awaited and returns.
InvokeHandler ==
    /\ pc = "processBlock"
    /\ Pending # <<>>
    /\ invoked' = Append(invoked, Head(Pending))
    /\ UNCHANGED <<store, args, returned, inflight, settings, thrown, hooks, blockRange, batches, heap, top, union, result, first, calls, pc>>
    /\ UNCHANGED <<running, lastBlock, batchIndex, blocks, tx, committed, error>>

\* A throwing handler after which the watermark is moved to the block.
HandlerThrowsAdvance ==
    /\ pc = "processBlock"
    /\ Pending # <<>>
    /\ invoked' = Append(invoked, Head(Pending))
    /\ tx' = undefined
    /\ error' = [blockHeight |-> Head(blocks).header.height,
                 blockHash |-> Head(blocks).header.hash,
                 handler |-> Head(Pending).handler]
    /\ lastBlock' = Head(blocks).header.height
    /\ pc' = "failed"
    /\ UNCHANGED <<store, args, returned, inflight, settings, thrown, hooks, blockRange, batches, heap, top, union, result, first, calls>>
    /\ UNCHANGED <<running, batchIndex, blocks, committed>>

\* A throwing handler whose block is committed all the same.
HandlerThrowsCommits ==
    /\ pc = "processBlock"
    /\ Pending # <<>>
    /\ invoked' = Append(invoked, Head(Pending))
    /\ tx' = undefined
    /\ committed' = Append(committed, tx.to)
    /\ error' = [blockHeight |-> Head(blocks).header.height,
                 blockHash |-> Head(blocks).header.hash,
                 handler |-> Head(Pending).handler]
    /\ pc' = "failed"
    /\ UNCHANGED <<store, args, returned, inflight, settings, thrown, hooks, blockRange, batches, heap, top, union, result, first, calls>>
    /\ UNCHANGED <<running, lastBlock, batchIndex, blocks>>

\* A throwing handler whose error is caught and dropped: the block goes on.
HandlerThrowsSwallowed ==
    /\ pc = "processBlock"
    /\ Pending # <<>>
    /\ invoked' = Append(invoked, Head(Pending))
    /\ error' = [blockHeight |-> Head(blocks).header.height,
                 blockHash |-> Head(blocks).header.hash,
                 handler |-> Head(Pending).handler]
    /\ UNCHANGED <<store, args, returned, inflight, settings, thrown, hooks, blockRange, batches, heap, top, union, result, first, calls, pc>>
    /\ UNCHANGED <<running, lastBlock, batchIndex, blocks, tx, committed>>

\* processBlock: the next handler is awaited and throws.  The transaction does
\* not commit, withErrorContext adds the block's height and hash to the error
\* and processBatch rejects with it.
HandlerThrows ==
    /\ pc = "processBlock"
    /\ Pending # <<>>
    /\ invoked' = Append(invoked, Head(Pending))
    /\ tx' = undefined
    /\ error' = [blockHeight |-> Head(blocks).header.height,
                 blockHash |-> Head(blocks).header.hash,
                 handler |-> Head(Pending).handler]
    /\ pc' = "failed"
    /\ UNCHANGED <<store, args, returned, inflight, settings, thrown, hooks, blockRange, batches, heap, top, union, result, first, calls>>
    /\ UNCHANGED <<running, lastBlock, batchIndex, blocks, committed>>

\* processBlock has returned: transact commits the block's transaction.
CommitBlock ==
    /\ pc = "processBlock"
    /\ Pending = <<>>
    /\ committed' = Append(committed, tx.to)
    /\ tx' = undefined
    /\ pc' = "committed"
    /\ UNCHANGED <<store, args, returned, inflight, settings, thrown, hooks, blockRange, batches, heap, top, union, result, first, calls>>
    /\ UNCHANGED <<running, lastBlock, batchIndex, blocks, invoked, error>>

\* The watermark is set and the loop is left: the rest of the blocks is dropped.
SetLastBlockLeavesLoop ==
    /\ pc = "committed"
    /\ lastBlock' = Head(blocks).header.height
    /\ blocks' = <<>>
    /\ pc' = "processBatch"
    /\ UNCHANGED <<store, args, returned, inflight, settings, thrown, hooks, blockRange, batches, heap, top, union, result, first, calls>>
    /\ UNCHANGED <<running, batchIndex, tx, committed, invoked, error>>

\* this.lastBlock = block.header.height, and the loop goes to the next block.
SetLastBlock ==
    /\ pc = "committed"
    /\ lastBlock' = Head(blocks).header.height
    /\ blocks' = Tail(blocks)
    /\ pc' = "processBatch"
    /\ UNCHANGED <<store, args, returned, inflight, settings, thrown, hooks, blockRange, batches, heap, top, union, result, first, calls>>
    /\ UNCHANGED <<running, batchIndex, tx, committed, invoked, error>>

\* processBatch returns after its last block: the runner goes to the next batch.
EndBatch ==
    /\ pc = "processBatch"
    /\ blocks = <<>>
    /\ batchIndex' = batchIndex + 1
    /\ pc' = "done"
    /\ UNCHANGED <<store, args, returned, inflight, settings, thrown, hooks, blockRange, batches, heap, top, union, result, first, calls>>
    /\ UNCHANGED <<running, lastBlock, blocks, tx, committed, invoked, error>>

\* ------------------------------------------- handlers as asynchronous calls
\* processBlock calls the next handler and goes on without awaiting it.
StartHandlerNoAwait ==
    /\ pc = "processBlock"
    /\ Pending # <<>>
    /\ invoked' = Append(invoked, Head(Pending))
    /\ inflight' = inflight \cup {Head(Pending)}
    /\ UNCHANGED <<store, args, returned, settings, thrown, hooks, blockRange, batches, heap, top, union, result, first, calls, pc>>
    /\ UNCHANGED <<running, lastBlock, batchIndex, blocks, tx, committed, error>>

\* processBlock: await handler(...): the next handler is called and
\* processBlock is suspended until the handler's promise settles.
StartHandler ==
    /\ pc = "processBlock"
    /\ Pending # <<>>
    /\ invoked' = Append(invoked, Head(Pending))
    /\ inflight' = inflight \cup {Head(Pending)}
    /\ pc' = "await"
    /\ UNCHANGED <<store, args, returned, settings, thrown, hooks, blockRange, batches, heap, top, union, result, first, calls>>
    /\ UNCHANGED <<running, lastBlock, batchIndex, blocks, tx, committed, error>>

\* A handler in progress resolves; processBlock, if it awaits, resumes.
HandlerResolves ==
    /\ \E inv \in inflight : inflight' = inflight \ {inv}
    /\ pc' = IF pc = "await" THEN "processBlock" ELSE pc
    /\ UNCHANGED <<store, args, returned, settings, thrown, hooks, blockRange, batches, heap, top, union, result, first, calls>>
    /\ UNCHANGED <<running, lastBlock, batchIndex, blocks, tx, committed, invoked, error>>

\* The awaited handler rejects: the transaction does not commit and
\* processBatch rejects with the error, the block's height and hash added.
HandlerRejects ==
    /\ pc = "await"
    /\ \E inv \in inflight :
        /\ inflight' = inflight \ {inv}
        /\ error' = [blockHeight |-> Head(blocks).header.height,
                     blockHash |-> Head(blocks).header.hash,
                     handler |-> inv.handler]
    /\ tx' = undefined
    /\ pc' = "failed"
    /\ UNCHANGED <<store, args, returned, settings, thrown, hooks, blockRange, batches, heap, top, union, result, first, calls>>
    /\ UNCHANGED <<running, lastBlock, batchIndex, blocks, committed, invoked>>

\* ---------------------------------------------------------- inputs of a run
callHook(c, flag) == [kind |-> "call", call |-> c, triggerForFailedCalls |-> flag]
contractsContractEmittedHook(a) == [kind |-> "contractsContractEmitted", contractAddress |-> a]
gearMessageEnqueuedHook(p) == [kind |-> "gearMessageEnqueued", programId |-> p]
gearUserMessageSentHook(p) == [kind |-> "gearUserMessageSent", programId |-> p]

\* The triggers of the hooks of a run, by registration number: the block
\* hooks, an event and the wildcard, a call with and without the flag.
RunLayouts ==
    {[i \in 1..MaxRunRegs |-> IF i % 2 = 1 THEN preHook ELSE postHook],
     [i \in 1..MaxRunRegs |-> IF i % 2 = 1 THEN eventHook("E1") ELSE eventHook("*")],
     [i \in 1..MaxRunRegs |->
        IF i % 2 = 1 THEN callHook("C1", FALSE) ELSE callHook("C1", TRUE)]}

\* The hooks of a SubstrateProcessor.
mkProcessorHooks(regs) ==
    [pre |-> ofKind(regs, "pre"), post |-> ofKind(regs, "post"),
     event |-> ofKind(regs, "event"), call |-> ofKind(regs, "call"),
     evmLog |-> ofKind(regs, "evmLog"),
     contractsContractEmitted |-> ofKind(regs, "contractsContractEmitted"),
     gearMessageEnqueued |-> ofKind(regs, "gearMessageEnqueued"),
     gearUserMessageSent |-> ofKind(regs, "gearUserMessageSent")]

\* A configured processor before run(): up to MaxRunRegs hooks, each with any
\* range or none, and any run range.
InitRun ==
    /\ \E n \in 0..MaxRunRegs, layout \in RunLayouts :
        \E ranges \in [1..n -> RangesTo(MaxRunHeight) \cup {undefined}] :
            hooks = mkProcessorHooks([i \in 1..n |-> mkHook(layout[i], i, ranges[i])])
    /\ blockRange \in RangesTo(MaxRunHeight)
    /\ batches = <<>>
    /\ heap = {}
    /\ top = undefined
    /\ union = <<>>
    /\ result = <<>>
    /\ first = <<>>
    /\ calls = 0
    /\ pc = "config"
    /\ InitRunner

NextRun ==
    \/ Run
    \/ ProcessorCreateBatches
    \/ MergeDisjoint
    \/ MergeIntersect
    \/ MergeFinish
    \/ FetchBlocks
    \/ BeginBlock
    \/ InvokeHandler
    \/ HandlerThrows
    \/ CommitBlock
    \/ SetLastBlock
    \/ EndBatch
    \/ RunFinished

SpecRun == InitRun /\ [][NextRun]_vars

\* A configured processor before run(): up to MaxRunRegs hooks without a
\* range and any run range.
InitAsync ==
    /\ \E n \in 0..MaxRunRegs, layout \in RunLayouts :
            hooks = mkProcessorHooks([i \in 1..n |-> mkHook(layout[i], i, undefined)])
    /\ blockRange \in RangesTo(MaxRunHeight)
    /\ batches = <<>>
    /\ heap = {}
    /\ top = undefined
    /\ union = <<>>
    /\ result = <<>>
    /\ first = <<>>
    /\ calls = 0
    /\ pc = "config"
    /\ InitRunner

\* The run with every handler call a suspension point.
NextAsync ==
    \/ Run
    \/ ProcessorCreateBatches
    \/ MergeIntersect
    \/ MergeFinish
    \/ FetchBlocks
    \/ BeginBlock
    \/ StartHandler
    \/ HandlerResolves
    \/ HandlerRejects
    \/ CommitBlock
    \/ SetLastBlock
    \/ EndBatch
    \/ RunFinished

SpecAsync == InitAsync /\ [][NextAsync]_vars

\* run() that starts a runner also when the processor is running.
RunAgainRestarts ==
    /\ running
    /\ lastBlock' = blockRange.from - 1
    /\ pc' = "start"
    /\ UNCHANGED <<store, args, returned, inflight, settings, thrown, hooks, blockRange, batches, heap, top, union, result, first, calls>>
    /\ UNCHANGED <<running, batchIndex, blocks, tx, committed, invoked, error>>

\* run() called when the processor is running, at any moment of the run:
\* if (this.running) return.
RunAgain ==
    /\ running
    /\ UNCHANGED vars

\* The run of a processor on which run() is called again and again.
NextPhase == NextAsync \/ RunAgain

SpecPhase == InitAsync /\ [][NextPhase]_vars

\* --------------------------------------------- a source that misbehaves
\* The heights of the blocks a source may hand over for a batch: any one or
\* two heights of the chain, in any order.
Deliveries ==
    {<<a>> : a \in 0..ChainHead} \cup {<<a, b>> : a \in 0..ChainHead, b \in 0..ChainHead}

\* The runner takes the next batch and the source delivers blocks of any
\* heights, which are handed to processBatch.
FetchAnyBlocks ==
    /\ pc = "done"
    /\ running
    /\ batchIndex <= Len(result)
    /\ \E hs \in Deliveries :
            blocks' = [i \in DOMAIN hs |-> [header |-> [height |-> hs[i], hash |-> hs[i]]]]
    /\ pc' = "processBatch"
    /\ UNCHANGED <<store, args, returned, inflight, settings, thrown, hooks, blockRange, batches, heap, top, union, result, first, calls>>
    /\ UNCHANGED <<running, lastBlock, batchIndex, tx, committed, invoked, error>>

\* A processor with up to MaxRunRegs block hooks of any range and the default
\* run range.
InitSource ==
    /\ \E n \in 0..MaxRunRegs :
        \E ranges \in [1..n -> RangesTo(MaxRunHeight) \cup {undefined}] :
            hooks = mkProcessorHooks(
                [i \in 1..n |-> mkHook(IF i % 2 = 1 THEN preHook ELSE postHook, i, ranges[i])])
    /\ blockRange = [from |-> 0]
    /\ batches = <<>>
    /\ heap = {}
    /\ top = undefined
    /\ union = <<>>
    /\ result = <<>>
    /\ first = <<>>
    /\ calls = 0
    /\ pc = "config"
    /\ InitRunner

NextSource ==
    \/ Run
    \/ ProcessorCreateBatches
    \/ MergeDisjoint
    \/ MergeIntersect
    \/ MergeFinish
    \/ FetchAnyBlocks
    \/ BeginBlock
    \/ InvokeHandler
    \/ HandlerThrows
    \/ CommitBlock
    \/ SetLastBlock
    \/ EndBatch
    \/ RunFinished

SpecSource == InitSource /\ [][NextSource]_vars

\* ------------------------------------------------------------ a clean run
\* The first height of the run and the most blocks the source delivers.
FirstHeight == 10
MaxCleanBlocks == 3

CleanHeights == FirstHeight..(FirstHeight + MaxCleanBlocks - 1)

\* The heights of S in ascending order.
Ascending(S) ==
    CHOOSE q \in [1..Cardinality(S) -> S] :
        \A i, j \in 1..Cardinality(S) : i < j => q[i] < q[j]

\* The runner takes the next batch and the source delivers blocks of the
\* batch's range with strictly ascending heights above the watermark.
FetchAscendingBlocks ==
    /\ pc = "done"
    /\ running
    /\ batchIndex <= Len(result)
    /\ \E S \in SUBSET {h \in CleanHeights :
                            h > lastBlock /\ InRange(h, result[batchIndex].range)} :
            blocks' = [i \in 1..Cardinality(S) |->
                        [header |-> [height |-> Ascending(S)[i], hash |-> Ascending(S)[i]]]]
    /\ pc' = "processBatch"
    /\ UNCHANGED <<store, args, returned, inflight, settings, thrown, hooks, blockRange, batches, heap, top, union, result, first, calls>>
    /\ UNCHANGED <<running, lastBlock, batchIndex, tx, committed, invoked, error>>

BeginBlockOfCleanRun == beginBlock({<<>>, <<event("E1")>>})

\* A processor with up to MaxRunRegs hooks, before and after the block or on
\* an event, each over the range from FirstHeight or without a range, and
\* the run range from FirstHeight.
InitClean ==
    /\ \E n \in 0..MaxRunRegs, layout \in {<<preHook, postHook>>, <<eventHook("E1"), preHook>>} :
        \E ranges \in [1..n -> {undefined, [from |-> FirstHeight]}] :
            hooks = mkProcessorHooks(
                [i \in 1..n |-> mkHook(layout[((i - 1) % 2) + 1], i, ranges[i])])
    /\ blockRange = [from |-> FirstHeight]
    /\ batches = <<>>
    /\ heap = {}
    /\ top = undefined
    /\ union = <<>>
    /\ result = <<>>
    /\ first = <<>>
    /\ calls = 0
    /\ pc = "config"
    /\ InitRunner

\* The run in which no handler throws.
NextClean ==
    \/ Run
    \/ ProcessorCreateBatches
    \/ MergeIntersect
    \/ MergeFinish
    \/ FetchAscendingBlocks
    \/ BeginBlockOfCleanRun
    \/ InvokeHandler
    \/ CommitBlock
    \/ SetLastBlock
    \/ EndBatch
    \/ RunFinished

\* The event loop runs every continuation that is ready: the run takes a
\* step whenever it can.
SpecClean == InitClean /\ [][NextClean]_vars /\ WF_vars(NextClean)

\* ------------------------------------------------- the dispatch of a block
\* Largest number of hooks registered before a run over one block.
MaxBlockRegs == 4

evmLogEvent(address, topics) ==
    [kind |-> "event",
     event |-> [name |-> "EVM.Log", address |-> address, topics |-> topics]]
contractEmittedEvent(contract) ==
    [kind |-> "event", event |-> [name |-> "Contracts.ContractEmitted", contract |-> contract]]
gearMessageEnqueuedEvent(destination) ==
    [kind |-> "event", event |-> [name |-> "Gear.MessageEnqueued", destination |-> destination]]
gearUserMessageSentEvent(source) ==
    [kind |-> "event", event |-> [name |-> "Gear.UserMessageSent", source |-> source]]

\* The triggers of the hooks of a run over one block, by registration number:
\* block hooks around an event; wildcard and named event handlers with a call
\* handler; generic
\* and specialized handlers of the specialized events; call handlers with and
\* without the flag, wildcard and named.
BlockLayouts ==
    {[i \in 1..MaxBlockRegs |->
        CASE i % 4 = 1 -> preHook [] i % 4 = 2 -> postHook
          [] i % 4 = 3 -> eventHook("E1") [] OTHER -> preHook],
     [i \in 1..MaxBlockRegs |->
        CASE i % 4 = 1 -> eventHook("E1") [] i % 4 = 2 -> eventHook("*")
          [] i % 4 = 3 -> callHook("*", FALSE) [] OTHER -> eventHook("E1")],
     [i \in 1..MaxBlockRegs |->
        CASE i % 4 = 1 -> evmLogHook("0xa") [] i % 4 = 2 -> eventHook("EVM.Log")
          [] i % 4 = 3 -> eventHook("*") [] OTHER -> evmLogHook("0xa")],
     [i \in 1..MaxBlockRegs |->
        CASE i % 4 = 1 -> contractsContractEmittedHook("0xa")
          [] i % 4 = 2 -> gearMessageEnqueuedHook("0xa")
          [] i % 4 = 3 -> gearUserMessageSentHook("0xa")
          [] OTHER -> eventHook("Gear.MessageEnqueued")],
     [i \in 1..MaxBlockRegs |->
        CASE i % 4 = 1 -> callHook("C1", FALSE) [] i % 4 = 2 -> callHook("*", TRUE)
          [] i % 4 = 3 -> callHook("C1", TRUE) [] OTHER -> callHook("*", FALSE)]}

\* The item logs the one block may carry.
BlockLogs ==
    {<<>>,
     <<event("E1"), call("C1", TRUE), event("E2"), event("E1")>>,
     <<evmLogEvent("0xa", <<"0x1">>), call("C1", FALSE), evmLogEvent("0xb", <<"0x1">>)>>,
     <<call("C1", FALSE), gearMessageEnqueuedEvent("0xa"), contractEmittedEvent("0xa"),
       call("C2", TRUE), gearUserMessageSentEvent("0xa")>>}

BeginBlockOfLogs == beginBlock(BlockLogs)

\* A processor with up to MaxBlockRegs hooks without a range and the run
\* range of the one block 0.
InitBlock ==
    /\ \E n \in 0..MaxBlockRegs, layout \in BlockLayouts :
            hooks = mkProcessorHooks([i \in 1..n |-> mkHook(layout[i], i, undefined)])
    /\ blockRange = [from |-> 0, to |-> 0]
    /\ batches = <<>>
    /\ heap = {}
    /\ top = undefined
    /\ union = <<>>
    /\ result = <<>>
    /\ first = <<>>
    /\ calls = 0
    /\ pc = "config"
    /\ InitRunner

NextBlock ==
    \/ Run
    \/ ProcessorCreateBatches
    \/ MergeIntersect
    \/ MergeFinish
    \/ FetchBlocks
    \/ BeginBlockOfLogs
    \/ InvokeHandler
    \/ HandlerThrows
    \/ CommitBlock
    \/ SetLastBlock
    \/ EndBatch
    \/ RunFinished

SpecBlock == InitBlock /\ [][NextBlock]_vars

\* ------------------------------------- the specialized kinds of an event
\* The names the four specialized lookups test for, and an ordinary name.
EventNames ==
    {"EVM.Log", "Contracts.ContractEmitted", "Gear.MessageEnqueued",
     "Gear.UserMessageSent", "E1"}

\* An event of the given name whose arguments hold what every specialized
\* lookup reads: the address and topics of a log, a contract, a destination
\* and a source.
eventWithAllArgs(name) ==
    [kind |-> "event",
     event |-> [name |-> name, address |-> "0xa", topics |-> <<"0x1">>,
                contract |-> "0xa", destination |-> "0xa", source |-> "0xa"]]

\* One specialized hook of every kind for the address of the events, alone
\* and after a handler of every event.
KindLayouts ==
    {[i \in 1..MaxBlockRegs |->
        CASE i % 4 = 1 -> evmLogHook("0xa")
          [] i % 4 = 2 -> contractsContractEmittedHook("0xa")
          [] i % 4 = 3 -> gearMessageEnqueuedHook("0xa")
          [] OTHER -> gearUserMessageSentHook("0xa")],
     [i \in 1..MaxBlockRegs |->
        CASE i % 4 = 1 -> eventHook("*")
          [] i % 4 = 2 -> gearUserMessageSentHook("0xa")
          [] i % 4 = 3 -> contractsContractEmittedHook("0xa")
          [] OTHER -> evmLogHook("0xa")]}

\* The item logs of the one block: one or two events of any of the names.
KindLogs ==
    {<<eventWithAllArgs(a)>> : a \in EventNames}
    \cup {<<eventWithAllArgs(a), eventWithAllArgs(b)>> : a \in EventNames, b \in EventNames}

BeginBlockOfKindLogs == beginBlock(KindLogs)

\* A processor with up to MaxBlockRegs hooks without a range and the run
\* range of the one block 0.
InitKinds ==
    /\ \E n \in 0..MaxBlockRegs, layout \in KindLayouts :
            hooks = mkProcessorHooks([i \in 1..n |-> mkHook(layout[i], i, undefined)])
    /\ blockRange = [from |-> 0, to |-> 0]
    /\ batches = <<>>
    /\ heap = {}
    /\ top = undefined
    /\ union = <<>>
    /\ result = <<>>
    /\ first = <<>>
    /\ calls = 0
    /\ pc = "config"
    /\ InitRunner

NextKinds ==
    \/ Run
    \/ ProcessorCreateBatches
    \/ MergeIntersect
    \/ MergeFinish
    \/ FetchBlocks
    \/ BeginBlockOfKindLogs
    \/ InvokeHandler
    \/ HandlerThrows
    \/ CommitBlock
    \/ SetLastBlock
    \/ EndBatch
    \/ RunFinished

SpecKinds == InitKinds /\ [][NextKinds]_vars

\* ------------------------------------------------ the filter of EVM logs
\* Longest topic filter of a registration and most topics of a log.
MaxFilterLen == 2
MaxTopics == 2

Topics == {"0x1", "0xABC", "0xDEF"}

\* EvmTopicSet: null, one topic or an array of topics.
TopicSets ==
    {[kind |-> "null"]}
    \cup {[kind |-> "topic", value |-> t] : t \in Topics}
    \cup {[kind |-> "array", values |-> vs] : vs \in {{}, {"0x1", "0xABC"}, {"0xDEF"}}}

SeqsUpTo(S, n) == UNION {[1..k -> S] : k \in 0..n}

\* The filter option of addEvmLogHandler: absent or a list of topic sets.
EvmFilters == {undefined} \cup {[sets |-> q] : q \in SeqsUpTo(TopicSets, MaxFilterLen)}

\* String.prototype.toLowerCase on the address strings of the model.
toLowerCase(str) ==
    CASE str = "0xA" -> "0xa"
      [] str = "0xB" -> "0xb"
      [] OTHER -> str

\* addEvmLogHandler: the hook pushed to hooks.evmLog.  The field argument
\* keeps the contractAddress the caller passed; no code reads it.
addEvmLogHandler(contractAddress, filter) ==
    [kind |-> "evmLog", contractAddress |-> toLowerCase(contractAddress),
     filter |-> filter, argument |-> contractAddress]

\* The item logs of the one block: one EVM.Log of contract 0xa with any topics.
EvmLogs == {<<evmLogEvent("0xa", t)>> : t \in SeqsUpTo(Topics, MaxTopics)}

BeginBlockOfEvmLogs == beginBlock(EvmLogs)

\* A processor with an EVM log handler of contract 0xa with any filter and a
\* handler of the event EVM.Log, and the run range of the one block 0.
InitEvm ==
    /\ \E f \in EvmFilters :
            hooks = mkProcessorHooks(
                <<mkHook(addEvmLogHandler("0xa", f), 1, undefined),
                  mkHook(eventHook("EVM.Log"), 2, undefined)>>)
    /\ blockRange = [from |-> 0, to |-> 0]
    /\ batches = <<>>
    /\ heap = {}
    /\ top = undefined
    /\ union = <<>>
    /\ result = <<>>
    /\ first = <<>>
    /\ calls = 0
    /\ pc = "config"
    /\ InitRunner

NextEvm ==
    \/ Run
    \/ ProcessorCreateBatches
    \/ MergeIntersect
    \/ MergeFinish
    \/ FetchBlocks
    \/ BeginBlockOfEvmLogs
    \/ InvokeHandler
    \/ HandlerThrows
    \/ CommitBlock
    \/ SetLastBlock
    \/ EndBatch
    \/ RunFinished

SpecEvm == InitEvm /\ [][NextEvm]_vars

\* ------------------------------------------- the addresses of contracts
\* Largest number of handlers registered by contract address.
MaxAddressRegs == 2

\* The address strings a caller registers and an event carries.
Addresses == {"0xa", "0xA", "0xb"}

\* addContractsContractEmittedHandler: the hook pushed to
\* hooks.contractsContractEmitted.  The field argument keeps the
\* contractAddress the caller passed; no code reads it.
addContractsContractEmittedHandler(contractAddress) ==
    [kind |-> "contractsContractEmitted",
     contractAddress |-> toLowerCase(contractAddress), argument |-> contractAddress]

\* The registrations by contract address: an EVM log handler without a filter
\* or with a filter on the first topic, or a contract-emitted handler.
AddressRegs ==
    {addEvmLogHandler(a, f) :
        a \in Addresses,
        f \in {undefined, [sets |-> <<[kind |-> "topic", value |-> "0xDEF"]>>]}}
    \cup {addContractsContractEmittedHandler(a) : a \in Addresses}

\* The item logs of the one block: one EVM.Log or one
\* Contracts.ContractEmitted of any address.
AddressLogs ==
    {<<evmLogEvent(a, <<t>>)>> : a \in Addresses, t \in {"0x1", "0xDEF"}}
    \cup {<<contractEmittedEvent(a)>> : a \in Addresses}

BeginBlockOfAddressLogs == beginBlock(AddressLogs)

\* A processor with up to MaxAddressRegs handlers registered by contract
\* address and the run range of the one block 0.
InitAddress ==
    /\ \E n \in 0..MaxAddressRegs :
        \E regs \in [1..n -> AddressRegs] :
            hooks = mkProcessorHooks([i \in 1..n |-> mkHook(regs[i], i, undefined)])
    /\ blockRange = [from |-> 0, to |-> 0]
    /\ batches = <<>>
    /\ heap = {}
    /\ top = undefined
    /\ union = <<>>
    /\ result = <<>>
    /\ first = <<>>
    /\ calls = 0
    /\ pc = "config"
    /\ InitRunner

NextAddress ==
    \/ Run
    \/ ProcessorCreateBatches
    \/ MergeIntersect
    \/ MergeFinish
    \/ FetchBlocks
    \/ BeginBlockOfAddressLogs
    \/ InvokeHandler
    \/ HandlerThrows
    \/ CommitBlock
    \/ SetLastBlock
    \/ EndBatch
    \/ RunFinished

SpecAddress == InitAddress /\ [][NextAddress]_vars

\* ------------------------------------------------ the configuration calls
\* Largest number of hooks registered by the configuration calls.
MaxConfigRegs == 1

\* assertNotRunning without its test.
assertNotRunningAlways == TRUE

\* assertNotRunning returns normally iff the processor is not running.
assertNotRunning == ~running

SettingsError ==
    [message |-> "Settings modifications are not allowed after start of processing"]

\* The failure of assert(size > 0) in setBatchSize.
SizeAssertionError == [assertion |-> "size > 0"]

\* A configuration call touches neither the scheduler nor the runner.
configFrame ==
    /\ UNCHANGED <<batches, heap, top, union, result, first, calls, pc, inflight>>
    /\ UNCHANGED <<args, returned, store>>
    /\ UNCHANGED runVars

\* assertNotRunning threw: the call ends before its first assignment.
rejected ==
    /\ thrown' = SettingsError
    /\ UNCHANGED <<settings, hooks, blockRange>>
    /\ configFrame

\* The number of hooks registered so far; the next handler is numbered by it.
hooksCount ==
    Len(hooks.pre) + Len(hooks.post) + Len(hooks.event) + Len(hooks.call)
    + Len(hooks.evmLog) + Len(hooks.contractsContractEmitted)
    + Len(hooks.gearMessageEnqueued) + Len(hooks.gearUserMessageSent)

\* The range option a caller may pass: none or a range, well-formed or not.
RangeOptions == {undefined, [from |-> 1, to |-> 0]}

\* this.hooks.<list>.push({handler, ...options}); return this
pushWith(list, shape, range) ==
    /\ hooksCount < MaxConfigRegs
    /\ hooks' = [hooks EXCEPT ![list] = Append(@, mkHook(shape, hooksCount + 1, range))]
    /\ thrown' = undefined
    /\ UNCHANGED <<settings, blockRange>>
    /\ configFrame

\* this.hooks.<list>.push(hook); return this
push(list, shape) ==
    /\ hooksCount < MaxConfigRegs
    /\ hooks' = [hooks EXCEPT ![list] = Append(@, mkHook(shape, hooksCount + 1, undefined))]
    /\ thrown' = undefined
    /\ UNCHANGED <<settings, blockRange>>
    /\ configFrame

\* this.<field> = value; return this
assign(field, value) ==
    /\ settings' = [settings EXCEPT ![field] = value]
    /\ thrown' = undefined
    /\ UNCHANGED <<hooks, blockRange>>
    /\ configFrame

SetDataSource ==
    \E src \in {[chain |-> "wss://rpc", archive |-> "https://archive"]} :
        IF assertNotRunning THEN assign("src", src) ELSE rejected

\* A bundle is given by name, which getOldTypesBundle or readOldTypesBundle
\* resolves, or as an object.
SetTypesBundle ==
    \E bundle \in {[typeof |-> "string", name |-> "kusama"],
                    [typeof |-> "object", types |-> "custom"]} :
        IF assertNotRunning
        THEN assign("typesBundle",
                    IF bundle.typeof = "string"
                    THEN [typeof |-> "object", types |-> bundle.name]
                    ELSE bundle)
        ELSE rejected

SetBlockRange ==
    \E range \in {[from |-> 0, to |-> 0], [from |-> 1, to |-> 0]} :
        IF assertNotRunning
        THEN /\ blockRange' = range
             /\ thrown' = undefined
             /\ UNCHANGED <<settings, hooks>>
             /\ configFrame
        ELSE rejected

SetBatchSize ==
    \E size \in {0, 1} :
        IF assertNotRunning
        THEN IF size > 0
             THEN assign("batchSize", size)
             ELSE /\ thrown' = SizeAssertionError
                  /\ UNCHANGED <<settings, hooks, blockRange>>
                  /\ configFrame
        ELSE rejected

SetPrometheusPort ==
    \E port \in {[value |-> 3000]} :
        IF assertNotRunning THEN assign("prometheusPort", port) ELSE rejected

AddPreHook == IF assertNotRunning THEN push("pre", preHook) ELSE rejected

AddPostHook == IF assertNotRunning THEN push("post", postHook) ELSE rejected

AddEventHandler ==
    \E range \in RangeOptions :
        IF assertNotRunning THEN pushWith("event", eventHook("E1"), range) ELSE rejected

AddCallHandler ==
    IF assertNotRunning THEN push("call", callHook("C1", FALSE)) ELSE rejected

AddEvmLogHandler ==
    IF assertNotRunning
    THEN push("evmLog", addEvmLogHandler("0xA", undefined))
    ELSE rejected

AddContractsContractEmittedHandler ==
    IF assertNotRunning
    THEN push("contractsContractEmitted", addContractsContractEmittedHandler("0xA"))
    ELSE rejected

AddGearMessageEnqueuedHandler ==
    IF assertNotRunning
    THEN push("gearMessageEnqueued", gearMessageEnqueuedHook("0xa"))
    ELSE rejected

AddGearUserMessageSentHandler ==
    IF assertNotRunning
    THEN push("gearUserMessageSent", gearUserMessageSentHook("0xa"))
    ELSE rejected

\* A new SubstrateProcessor.
InitConfig ==
    /\ hooks = mkProcessorHooks(<<>>)
    /\ blockRange = [from |-> 0]
    /\ batches = <<>>
    /\ heap = {}
    /\ top = undefined
    /\ union = <<>>
    /\ result = <<>>
    /\ first = <<>>
    /\ calls = 0
    /\ pc = "config"
    /\ InitRunner

NextConfig ==
    \/ SetDataSource
    \/ SetTypesBundle
    \/ SetBlockRange
    \/ SetBatchSize
    \/ SetPrometheusPort
    \/ AddPreHook
    \/ AddPostHook
    \/ AddEventHandler
    \/ AddCallHandler
    \/ AddEvmLogHandler
    \/ AddContractsContractEmittedHandler
    \/ AddGearMessageEnqueuedHandler
    \/ AddGearUserMessageSentHandler
    \/ Run
    \/ ProcessorCreateBatches

SpecConfig == InitConfig /\ [][NextConfig]_vars

\* ------------------------------------------------ functions under test
\* Nothing is scheduled and nothing runs while a function is under test.
InitIdle ==
    /\ hooks = mkProcessorHooks(<<>>)
    /\ blockRange = [from |-> 0]
    /\ batches = <<>>
    /\ heap = {}
    /\ top = undefined
    /\ union = <<>>
    /\ result = <<>>
    /\ first = <<>>
    /\ calls = 0
    /\ running = FALSE
    /\ settings = DefaultSettings
    /\ thrown = undefined
    /\ inflight = {}
    /\ lastBlock = -1
    /\ batchIndex = 1
    /\ blocks = <<>>
    /\ tx = undefined
    /\ committed = <<>>
    /\ invoked = <<>>
    /\ error = undefined

\* The call of a function touches neither the processor nor the run.
callFrame ==
    /\ UNCHANGED <<hooks, blockRange, batches, heap, top, union, result, first, calls>>
    /\ UNCHANGED <<settings, thrown, inflight>>
    /\ UNCHANGED runVars

\* ----------------------------------------------- mergeDataHandlers, called
\* Longest handler list of a slot of an argument.
MaxList == 1

\* The handlers of argument k, in the order of their registration.
listOf(k, n) == [i \in 1..n |-> 10 * k + i]

\* The keys of the extrinsics of an event of argument k.
extrinsicsOf(k) ==
    CASE k = 1 -> {"X1"} [] k = 2 -> {"X1", "X2"} [] OTHER -> {"X2"}

\* The DataHandlers argument k may be.
SampleHandlers(k) ==
    {[pre |-> listOf(k, n),
      post |-> listOf(k, n),
      events |-> [key \in keys |-> IF key = "E1" THEN listOf(k, MaxList)
                                  ELSE <<10 * k + 9>>],
      extrinsics |-> IF more
                     THEN "E1" :> [x \in extrinsicsOf(k) |-> listOf(k, MaxList)]
                     ELSE EmptyMap,
      evmLogs |-> IF more
                  THEN "0xa" :> <<[filter |-> undefined, handler |-> 10 * k + 1]>>
                  ELSE EmptyMap] :
        n \in 0..MaxList, keys \in SUBSET {"E1", "E2"}, more \in BOOLEAN}

\* Three DataHandlers a, b, c.
InitMergeHandlers ==
    /\ args \in SampleHandlers(1) \X SampleHandlers(2) \X SampleHandlers(3)
    /\ returned = undefined
    /\ store = <<>>
    /\ pc = "call"
    /\ InitIdle

\* mergeDataHandlers(a, b)
CallMergeDataHandlers ==
    /\ pc = "call"
    /\ returned' = [value |-> mergeDataHandlers(args[1], args[2])]
    /\ pc' = "returned"
    /\ UNCHANGED <<args, store>>
    /\ callFrame

\* The merges of a, b and c in both groupings and of a and b in both orders.
CallMergeGroupings ==
    /\ pc = "call"
    /\ returned' =
            [left |-> mergeDataHandlers(mergeDataHandlers(args[1], args[2]), args[3]),
             right |-> mergeDataHandlers(args[1], mergeDataHandlers(args[2], args[3])),
             ab |-> mergeDataHandlers(args[1], args[2]),
             ba |-> mergeDataHandlers(args[2], args[1])]
    /\ pc' = "grouped"
    /\ UNCHANGED <<args, store>>
    /\ callFrame

NextMergeHandlers == CallMergeDataHandlers \/ CallMergeGroupings

SpecMergeHandlers == InitMergeHandlers /\ [][NextMergeHandlers]_vars

\* ------------------------------------- mergeDataHandlers on shared objects
\* The store holds the arrays and the objects of the heap of the program in
\* the order of their creation; a reference is a position of the store.  An
\* array is [list |-> its elements], an object [map |-> its values by key],
\* the values being references.
\* Most merges of one sweep.
MaxMerges == 2

ArrayOf(q) == [list |-> q]
ObjectOf(m) == [map |-> m]

\* ha.push(...hb): hb's elements are appended to the array ha itself.
concatInPlace(st, ha, hb) ==
    [st |-> [st EXCEPT ![ha] = ArrayOf(st[ha].list \o st[hb].list)], ref |-> ha]

\* ha.concat(hb): a new array of ha's elements followed by hb's.
concatNew(st, ha, hb) ==
    [st |-> Append(st, ArrayOf(st[ha].list \o st[hb].list)), ref |-> Len(st) + 1]

\* mergeMaps(a, b, mergeItems): the loops over the keys, the keys still to
\* come in todo and the entries of result so far in acc; then the new object
\* result.  Values of one side only are stored by reference.
RECURSIVE mergeMapsNew(_, _, _, _, _, _)
mergeMapsNew(st, a, b, mergeItems, todo, acc) ==
    IF todo = {} THEN [st |-> Append(st, ObjectOf(acc)), ref |-> Len(st) + 1]
    ELSE LET key == CHOOSE k \in todo : TRUE
             A == st[a].map
             B == st[b].map
             merged ==
                IF key \notin DOMAIN B THEN [st |-> st, ref |-> A[key]]
                ELSE IF key \notin DOMAIN A THEN [st |-> st, ref |-> B[key]]
                ELSE IF mergeItems = "concat" THEN concatNew(st, A[key], B[key])
                ELSE mergeMapsNew(st, A[key], B[key], "concat",
                                  DOMAIN st[A[key]].map \cup DOMAIN st[B[key]].map, <<>>)
         IN mergeMapsNew(merged.st, a, b, mergeItems, todo \ {key},
                         acc @@ (key :> merged.ref))

\* mergeDataHandlers(a, b) on references: the new object of the five merged
\* slots.
mergeDataHandlersNew(st, a, b) ==
    LET A == st[a].map
        B == st[b].map
        keysOf(s, x, y) == DOMAIN s[x].map \cup DOMAIN s[y].map
        pre == concatNew(st, A.pre, B.pre)
        post == concatNew(pre.st, A.post, B.post)
        events == mergeMapsNew(post.st, A.events, B.events, "concat",
                               keysOf(post.st, A.events, B.events), <<>>)
        extrinsics == mergeMapsNew(events.st, A.extrinsics, B.extrinsics, "mergeMaps",
                                   keysOf(events.st, A.extrinsics, B.extrinsics), <<>>)
        evmLogs == mergeMapsNew(extrinsics.st, A.evmLogs, B.evmLogs, "concat",
                                keysOf(extrinsics.st, A.evmLogs, B.evmLogs), <<>>)
    IN [st |-> Append(evmLogs.st,
                      ObjectOf([pre |-> pre.ref, post |-> post.ref, events |-> events.ref,
                                extrinsics |-> extrinsics.ref, evmLogs |-> evmLogs.ref])),
        ref |-> Len(evmLogs.st) + 1]

\* The handlers literal createBatches pushes for a hook: the arrays and
\* objects of its slots, then the DataHandlers object, which comes last.
singletonNew(st, hook) ==
    LET n == Len(st)
        slots(pre, post, events, extrinsics, evmLogs) ==
            ObjectOf([pre |-> pre, post |-> post, events |-> events,
                      extrinsics |-> extrinsics, evmLogs |-> evmLogs])
    IN
    CASE hook.kind = "pre" ->
            st \o <<ArrayOf(<<hook.handler>>), ArrayOf(<<>>), ObjectOf(<<>>), ObjectOf(<<>>),
                    ObjectOf(<<>>), slots(n + 1, n + 2, n + 3, n + 4, n + 5)>>
      [] hook.kind = "event" ->
            st \o <<ArrayOf(<<>>), ArrayOf(<<>>), ArrayOf(<<hook.handler>>),
                    ObjectOf(hook.event :> (n + 3)), ObjectOf(<<>>), ObjectOf(<<>>),
                    slots(n + 1, n + 2, n + 4, n + 5, n + 6)>>
      [] hook.kind = "extrinsic" ->
            st \o <<ArrayOf(<<>>), ArrayOf(<<>>), ObjectOf(<<>>), ArrayOf(<<hook.handler>>),
                    ObjectOf(hook.extrinsic :> (n + 4)), ObjectOf(hook.event :> (n + 5)),
                    ObjectOf(<<>>), slots(n + 1, n + 2, n + 3, n + 6, n + 7)>>
      [] hook.kind = "evmLog" ->
            st \o <<ArrayOf(<<>>), ArrayOf(<<>>), ObjectOf(<<>>), ObjectOf(<<>>),
                    ArrayOf(<<[filter |-> hook.filter, handler |-> hook.handler]>>),
                    ObjectOf(hook.contractAddress :> (n + 5)),
                    slots(n + 1, n + 2, n + 3, n + 4, n + 6)>>

\* The hooks whose handlers a sweep merges.
SharedHooks ==
    {preHook, eventHook("E1"), extrinsicHook("E1", "X1"), evmLogHook("0xa")}

\* The handlers of three batches as createBatches makes them.  args keeps
\* the references of the three, those of the handlers on the heap of the
\* sweep, and the store as it was when the sweep began.
InitShared ==
    /\ \E h1 \in SharedHooks, h2 \in SharedHooks, h3 \in SharedHooks :
        LET s1 == singletonNew(<<>>, mkHook(h1, 1, undefined))
            s2 == singletonNew(s1, mkHook(h2, 2, undefined))
            s3 == singletonNew(s2, mkHook(h3, 3, undefined))
        IN /\ store = s3
           /\ args = [inputs |-> {Len(s1), Len(s2), Len(s3)},
                      pool |-> {Len(s1), Len(s2), Len(s3)},
                      before |-> s3]
    /\ returned = undefined
    /\ pc = "merge"
    /\ InitIdle

\* One pass of the loop of mergeBatches that finds an intersection: the
\* handlers of top and of batch, any two on the heap, are merged and the
\* result is pushed; the leftover pieces keep the handlers they have.
MergeShared ==
    /\ pc = "merge"
    /\ Cardinality(args.pool) < Cardinality(args.inputs) + MaxMerges
    /\ \E a \in args.pool :
       \E b \in args.pool \ {a} :
        LET m == mergeDataHandlersNew(store, a, b) IN
        /\ store' = m.st
        /\ args' = [args EXCEPT !.pool = @ \cup {m.ref}]
        /\ returned' = [value |-> m.ref]
    /\ UNCHANGED pc
    /\ callFrame

NextShared == MergeShared

SpecShared == InitShared /\ [][NextShared]_vars

\* ------------------------------------------------ range arithmetic, called
\* Largest bound of a range of the calls.
MaxBound == 3

\* Two ranges, each with from <= to or without to.
InitRange ==
    /\ args \in RangesTo(MaxBound) \X RangesTo(MaxBound)
    /\ returned = undefined
    /\ store = <<>>
    /\ pc = "call"
    /\ InitIdle

\* rangeIntersection(top.range, batch.range), and with the arguments swapped
CallRangeIntersection ==
    /\ pc = "call"
    /\ returned' = [value |-> rangeIntersection(args[1], args[2]),
                    swapped |-> rangeIntersection(args[2], args[1])]
    /\ pc' = "intersected"
    /\ UNCHANGED <<args, store>>
    /\ callFrame

\* rangeDifference(top.range, i), i being any range
CallRangeDifference ==
    /\ pc = "call"
    /\ returned' = [value |-> rangeDifference(args[1], args[2]),
                    intersection |-> rangeIntersection(args[1], args[2])]
    /\ pc' = "subtracted"
    /\ UNCHANGED <<args, store>>
    /\ callFrame

NextRange == CallRangeIntersection \/ CallRangeDifference

SpecRange == InitRange /\ [][NextRange]_vars

\* -------------------------------------------------- getBlocksCount, called
\* Most batches of a list the blocks of which are counted.
MaxBatches == 2

\* The loop of getBlocksCount that adds chainHeight - range.from + 1 for
\* every batch, whatever its to.
RECURSIVE getBlocksCountLoopToHead(_, _, _, _)
getBlocksCountLoopToHead(list, chainHeight, i, count) ==
    IF i > Len(list) THEN count
    ELSE LET range == list[i].range IN
         IF chainHeight < range.from THEN count
         ELSE getBlocksCountLoopToHead(list, chainHeight, i + 1,
                                       count + chainHeight - range.from + 1)

\* The loop of getBlocksCount from batches[i] on (i counts from 1), count
\* being the blocks counted so far.
RECURSIVE getBlocksCountLoop(_, _, _, _)
getBlocksCountLoop(list, chainHeight, i, count) ==
    IF i > Len(list) THEN count
    ELSE LET range == list[i].range IN
         IF chainHeight < range.from THEN count
         ELSE LET to == IF HasTo(range) THEN Min(chainHeight, range.to)
                        ELSE chainHeight
              IN getBlocksCountLoop(list, chainHeight, i + 1, count + to - range.from + 1)

\* getBlocksCount(batches, chainHeight)
getBlocksCount(list, chainHeight) == getBlocksCountLoop(list, chainHeight, 1, 0)

\* The lists of at most n batches over the ranges of S that are sorted by
\* ascending from and do not overlap.
SortedBatches(S, n) ==
    {list \in SeqsUpTo({[range |-> r] : r \in S}, n) :
        \A i \in DOMAIN list : \A j \in DOMAIN list :
            i < j => /\ list[i].range.from < list[j].range.from
                     /\ rangeIntersection(list[i].range, list[j].range) = undefined}

\* A sorted list of batches that do not overlap and a chain height >= 0.
InitCount ==
    /\ args \in [batches : SortedBatches(RangesTo(MaxBound), MaxBatches),
                  chainHeight : 0..(MaxBound + 1)]
    /\ returned = undefined
    /\ store = <<>>
    /\ pc = "call"
    /\ InitIdle

\* getBlocksCount(batches, chainHeight); partial[i] is the count of the
\* first i batches.
CallGetBlocksCount ==
    /\ pc = "call"
    /\ returned' = [value |-> getBlocksCount(args.batches, args.chainHeight),
                    partial |-> [i \in 0..Len(args.batches) |->
                        getBlocksCount(SubSeq(args.batches, 1, i), args.chainHeight)]]
    /\ pc' = "counted"
    /\ UNCHANGED <<args, store>>
    /\ callFrame

NextCount == CallGetBlocksCount

SpecCount == InitCount /\ [][NextCount]_vars

\* ===================================================================
\* Properties of the scheduler
\* ===================================================================
Done == pc = "done"

Elems(s) == {s[i] : i \in DOMAIN s}

\* Every registered hook.
Regs == UNION {Elems(hooks[k]) : k \in DOMAIN hooks}

\* The range a hook was registered with (from 0, unbounded, by default).
RegRange(hook) == IF HasRange(hook) THEN hook.range ELSE [from |-> 0]

RangeBounds(r) == {r.from} \cup (IF HasTo(r) THEN {r.to} ELSE {})

SetMax(S) == CHOOSE x \in S : \A y \in S : y <= x

\* One more than every bound of every range in the inputs: the heights
\* 0..Horizon tell all ranges built from these bounds apart.
Horizon ==
    1 + SetMax({0} \cup UNION {RangeBounds(RegRange(r)) : r \in Regs}
                   \cup (IF blockRange = undefined THEN {} ELSE RangeBounds(blockRange)))

Probe == 0..Horizon

\* Height h is in the run range.
InRun(h) == blockRange # undefined => InRange(h, blockRange)

\* Height h is in the range of hook r clipped to the run range.
Active(h, r) == InRange(h, RegRange(r)) /\ InRun(h)

\* The handlers anywhere in a DataHandlers.
HandlerIds(dh) ==
    Elems(dh.pre) \cup Elems(dh.post)
    \cup UNION {Elems(dh.events[k]) : k \in DOMAIN dh.events}
    \cup UNION {UNION {Elems(dh.extrinsics[e][x]) : x \in DOMAIN dh.extrinsics[e]} :
                    e \in DOMAIN dh.extrinsics}
    \cup UNION {{dh.evmLogs[a][i].handler : i \in DOMAIN dh.evmLogs[a]} :
                    a \in DOMAIN dh.evmLogs}

\* C1: the list mergeBatches returns is sorted by strictly ascending
\* range.from and no height lies in the ranges of two of its batches.
C1_SortedNonOverlapping ==
    Done =>
        /\ \A i, j \in DOMAIN result :
            i < j => result[i].range.from < result[j].range.from
        /\ \A h \in Probe :
            Cardinality({i \in DOMAIN result : InRange(h, result[i].range)}) <= 1

\* C1 witness: three batches returned for three registrations that overlap.
C1_Witness ==
    /\ Done
    /\ Len(result) = 3
    /\ Len(batches) = 3
    /\ \E i, j \in DOMAIN batches :
        i # j /\ rangeIntersection(batches[i].range, batches[j].range) # undefined

\* C2: the heights covered by the batches createBatches returns are exactly
\* the heights of the run range that lie in the range of some registration.
C2_CoverageIsClippedUnion ==
    Done =>
        LET regs == Regs IN
        \A h \in Probe :
            (\E i \in DOMAIN result : InRange(h, result[i].range))
                <=> (\E r \in regs : Active(h, r))

\* C2 witness: a run range cuts a registration, and a height of the run range
\* between two registrations is left uncovered.
C2_Witness ==
    /\ Done
    /\ blockRange # undefined
    /\ Len(result) = 2
    /\ \E r \in Regs, h \in Probe : InRange(h, RegRange(r)) /\ ~InRun(h)
    /\ \E h \in Probe :
        /\ InRun(h)
        /\ ~\E r \in Regs : Active(h, r)
        /\ \E i, j \in DOMAIN result : result[i].range.from < h /\ h < result[j].range.from

\* Batch b lies inside the clipped range of hook r / apart from it.
InsideAt(heights, b, r) == \A h \in heights : InRange(h, b.range) => Active(h, r)
ApartAt(heights, b, r) == \A h \in heights : ~(InRange(h, b.range) /\ Active(h, r))
Inside(b, r) == InsideAt(Probe, b, r)
Apart(b, r) == ApartAt(Probe, b, r)

\* C3: every output batch lies inside or apart from the clipped range of every
\* registration, and carries exactly the handlers of those it lies inside.
C3_RangeExact ==
    Done =>
        LET heights == Probe
            regs == Regs
        IN \A i \in DOMAIN result :
            LET ids == HandlerIds(result[i].handlers) IN
            \A r \in regs :
                LET inside == InsideAt(heights, result[i], r) IN
                /\ inside \/ ApartAt(heights, result[i], r)
                /\ r.handler \in ids <=> inside

\* C3 witness: a batch carrying one registration's handler and not another's,
\* both clipped by a run range.
C3_Witness ==
    /\ Done
    /\ blockRange # undefined
    /\ \E i \in DOMAIN result : \E r, q \in Regs :
        /\ r.handler \in HandlerIds(result[i].handlers)
        /\ q.handler \notin HandlerIds(result[i].handlers)
        /\ \E j \in DOMAIN result : q.handler \in HandlerIds(result[j].handlers)
        /\ \E h \in Probe : InRange(h, RegRange(r)) /\ ~InRun(h)

\* The hooks in the order of their registration (a handler is the number of
\* its registration).
RegSeq == [n \in 1..Cardinality(Regs) |-> CHOOSE r \in Regs : r.handler = n]

\* Hooks r and q register into the same list of a DataHandlers.
SameSlot(r, q) ==
    /\ r.kind = q.kind
    /\ r.kind = "event" => r.event = q.event
    /\ r.kind = "extrinsic" => r.event = q.event /\ r.extrinsic = q.extrinsic
    /\ r.kind = "evmLog" => r.contractAddress = q.contractAddress

\* The handlers in the list of dh that hook r registers into.
SlotList(dh, r) ==
    CASE r.kind = "pre" -> dh.pre
      [] r.kind = "post" -> dh.post
      [] r.kind = "event" ->
            IF r.event \in DOMAIN dh.events THEN dh.events[r.event] ELSE <<>>
      [] r.kind = "extrinsic" ->
            IF r.event \in DOMAIN dh.extrinsics
            THEN IF r.extrinsic \in DOMAIN dh.extrinsics[r.event]
                 THEN dh.extrinsics[r.event][r.extrinsic] ELSE <<>>
            ELSE <<>>
      [] r.kind = "evmLog" ->
            IF r.contractAddress \in DOMAIN dh.evmLogs
            THEN [i \in DOMAIN dh.evmLogs[r.contractAddress] |->
                    dh.evmLogs[r.contractAddress][i].handler]
            ELSE <<>>

\* The handlers of the registrations of r's list that are active at height h,
\* in registration order.
ActiveInOrder(h, r) ==
    LET sel == SelectSeq(RegSeq, LAMBDA q : SameSlot(q, r) /\ Active(h, q)) IN
    [i \in DOMAIN sel |-> sel[i].handler]

\* s lists each element of set S exactly once.
ListsOnce(s, S) == Elems(s) = S /\ Len(s) = Cardinality(S)

C5_Example ==
    (Done /\ hooks = ExampleHooks /\ blockRange = undefined) =>
        result = <<
            [range |-> [from |-> 0, to |-> 49],
             handlers |-> [EmptyHandlers EXCEPT !.events = "E1" :> <<1>>]],
            [range |-> [from |-> 50, to |-> 99],
             handlers |-> [EmptyHandlers EXCEPT !.events = "E1" :> <<1, 2>>]],
            [range |-> [from |-> 100, to |-> 150],
             handlers |-> [EmptyHandlers EXCEPT !.events = "E1" :> <<2>>]] >>

\* C5 witness: the run on the example has returned.
C5_Witness == Done /\ hooks = ExampleHooks /\ Len(result) = 3

\* The registrations active at height h.
ActiveSet(h) == {r.handler : r \in {q \in Regs : Active(h, q)}}

\* The heights at which a maximal run of heights with one constant, non-empty
\* set of active registrations starts.
RunStarts ==
    {h \in Probe : ActiveSet(h) # {} /\ (h = 0 \/ ActiveSet(h - 1) # ActiveSet(h))}

\* C6: the batch list is minimal: as many batches as maximal runs of heights
\* with a constant non-empty set of active registrations, adjacent batches
\* carry different sets, and registrations that all have one range give one
\* batch carrying them all.
C6_Minimal ==
    Done =>
        /\ Len(result) = Cardinality(RunStarts)
        /\ \A i \in DOMAIN result :
            (/\ i + 1 \in DOMAIN result
             /\ HasTo(result[i].range)
             /\ result[i].range.to + 1 = result[i + 1].range.from)
                => HandlerIds(result[i].handlers) # HandlerIds(result[i + 1].handlers)
        /\ (Regs # {} /\ \A r, q \in Regs : RegRange(r) = RegRange(q)) =>
                /\ Len(result) = 1
                /\ HandlerIds(result[1].handlers) = {r.handler : r \in Regs}

\* C6 witness: three registrations with one and the same range.
C6_Witness ==
    /\ Done
    /\ Cardinality(Regs) = 3
    /\ \A r, q \in Regs : RegRange(r) = RegRange(q)
    /\ Len(result) = 1

\* C6 witness of the general case: adjacent batches after a split.
C6_WitnessAdjacent ==
    /\ Done
    /\ Cardinality(Regs) = 3
    /\ Len(result) = 3
    /\ \A i \in 1..2 : HasTo(result[i].range)
                        /\ result[i].range.to + 1 = result[i + 1].range.from

\* No two batches of the list have a height in common.
PairwiseDisjoint(bs) ==
    \A i, j \in DOMAIN bs :
        i # j => rangeIntersection(bs[i].range, bs[j].range) = undefined

\* C7: mergeBatches applied to a list mergeBatches returned gives that list
\* again: the same ranges with the same handlers.
C7_Idempotent ==
    /\ (Done /\ calls = 2) =>
        /\ {result[i].range : i \in DOMAIN result} = {first[i].range : i \in DOMAIN first}
        /\ Elems(result) = Elems(first)
        /\ Len(result) = Len(first)
    /\ (Done /\ PairwiseDisjoint(batches)) =>
        /\ Elems(result) = Elems(batches)
        /\ Len(result) = Len(batches)

\* C7 witness: a second merge of a list of three batches has returned.
C7_Witness == Done /\ calls = 2 /\ Len(first) = 3 /\ Len(batches) = 3

\* C8: every output batch lies inside the run range, and a registration
\* contributes its handler only to batches inside both its own range and the
\* run range: to none when the two are disjoint.
C8_Clipping ==
    (Done /\ blockRange # undefined) =>
        LET heights == Probe
            regs == Regs
        IN
        /\ \A i \in DOMAIN result :
            /\ \A h \in heights : InRange(h, result[i].range) => InRange(h, blockRange)
            /\ HasTo(blockRange) => HasTo(result[i].range)
        /\ \A i \in DOMAIN result :
            LET ids == HandlerIds(result[i].handlers) IN
            \A r \in regs :
                r.handler \in ids =>
                    \A h \in heights : InRange(h, result[i].range) =>
                        InRange(h, RegRange(r)) /\ InRange(h, blockRange)
        /\ \A r \in regs :
            (\A h \in heights : ~(InRange(h, RegRange(r)) /\ InRange(h, blockRange))) =>
                \A i \in DOMAIN result : r.handler \notin HandlerIds(result[i].handlers)

\* C8 witness: one registration disjoint from the run range and one that the
\* run range cuts on both sides.
C8_Witness ==
    /\ Done
    /\ blockRange # undefined
    /\ Len(result) = 1
    /\ \E r, q \in Regs :
        /\ \A h \in Probe : ~(InRange(h, RegRange(r)) /\ InRange(h, blockRange))
        /\ q.handler \in HandlerIds(result[1].handlers)
        /\ RegRange(q).from < blockRange.from
        /\ HasTo(blockRange)
        /\ (HasTo(RegRange(q)) => RegRange(q).to > blockRange.to)

\* ===================================================================
\* Properties of the runner
\* ===================================================================
\* The registration a handler belongs to.
RegOf(handler) == CHOOSE r \in Regs : r.handler = handler

\* C9: a handler is invoked for a block only when the block's height lies in
\* the range the handler was registered with (from 0 and unbounded by default)
\* and in the run range, the source delivering for each batch the blocks of
\* that batch's range.
C9_InvokedOnlyInRange ==
    \A i \in DOMAIN invoked :
        /\ InRange(invoked[i].height, RegRange(RegOf(invoked[i].handler)))
        /\ InRange(invoked[i].height, blockRange)

\* C9 witness: a block has been processed in which a handler whose range starts
\* below the run range was invoked and a handler of another registration,
\* whose range does not hold the block, was not.
C9_Witness ==
    /\ pc = "committed"
    /\ \E i \in DOMAIN invoked : \E q \in Regs :
        LET r == RegOf(invoked[i].handler) IN
        /\ HasRange(r)
        /\ r.range.from < blockRange.from
        /\ ~InRange(invoked[i].height, RegRange(q))
        /\ \A j \in DOMAIN invoked : invoked[j].handler # q.handler
        /\ \E h \in 0..ChainHead : InRange(h, RegRange(q)) /\ InRange(h, blockRange)

\* C10: after the start of the run the watermark changes only in the step
\* that follows the commit of a block's transaction, to the height of that
\* block, which is above the old watermark; it changes neither in a step taken
\* while the block's handlers run nor in a step in which the run fails.
C10_Watermark ==
    [][/\ (pc # "config" /\ lastBlock' # lastBlock) =>
            /\ pc = "committed"
            /\ tx = undefined
            /\ committed # <<>>
            /\ lastBlock' = committed[Len(committed)]
            /\ lastBlock' = Head(blocks).header.height
            /\ lastBlock' > lastBlock
       /\ (pc = "processBlock" \/ pc' = "failed") => lastBlock' = lastBlock]_vars

\* C10 witness: the run failed in a block after two blocks were committed,
\* and the watermark is the height of the second.
C10_Witness ==
    /\ pc = "failed"
    /\ "blockHeight" \in DOMAIN error
    /\ Len(committed) = 2
    /\ lastBlock = committed[2]
    /\ committed[1] < committed[2]
    /\ error.blockHeight > lastBlock

\* The watermark a run starts with: one below the first height of the run.
StartMark == blockRange.from - 1

\* The last element of a non-empty sequence.
Last(q) == q[Len(q)]

\* The handler of the current block threw.
HandlerFailed == pc = "failed" /\ "handler" \in DOMAIN error

\* C11: when a handler throws while block h is processed, the transaction of
\* block h is closed without a commit, the watermark keeps the value it had
\* before block h (the height of the block committed last, or the start value
\* when there is none), and the blocks committed earlier stay committed.
C11_ThrowLeavesBlockUncommitted ==
    [][(pc = "processBlock" /\ error' # undefined) =>
            /\ tx' = undefined
            /\ committed' = committed
            /\ \A i \in DOMAIN committed' : committed'[i] # Head(blocks).header.height
            /\ lastBlock' = lastBlock
            /\ lastBlock' = IF committed = <<>> THEN StartMark ELSE Last(committed)
            /\ lastBlock' < Head(blocks).header.height]_vars

\* C11 witness: a handler threw in the block after the one committed block.
C11_Witness ==
    /\ HandlerFailed
    /\ Len(committed) = 1
    /\ error.blockHeight = committed[1] + 1
    /\ lastBlock = committed[1]
    /\ tx = undefined

\* C12: once a handler has thrown nothing more happens in the run: no further
\* handler of the block is invoked, no later block is begun, nothing is
\* committed; the step of the throw ends processBatch with an error that
\* carries the height and the hash of the failing block.
C12_ErrorEndsRun ==
    [][/\ error = undefined
       /\ error' # undefined => pc' = "failed"
       /\ (pc = "processBlock" /\ error' # undefined) =>
            /\ error'.blockHeight = Head(blocks).header.height
            /\ error'.blockHash = Head(blocks).header.hash
            /\ error'.handler = Last(invoked').handler]_vars

\* C12 witness: a handler threw while a post handler of the block was still
\* to come and a later block of the batch was waiting.
C12_Witness ==
    /\ HandlerFailed
    /\ \E i \in DOMAIN Pending : Pending[i].hook = "post"
    /\ Len(blocks) > 1
    /\ error.blockHeight = Head(blocks).header.height

\* C13: when the block at the head of processBatch has a height less than or
\* equal to the watermark, the next step ends processBatch with an error; no
\* transaction is opened, no handler is invoked, nothing is committed and the
\* watermark stays.
C13_OrderingViolation ==
    [][(pc = "processBatch" /\ blocks # <<>>
            /\ Head(blocks).header.height <= lastBlock) =>
            /\ pc' = "failed"
            /\ error' # undefined
            /\ tx = undefined /\ tx' = undefined
            /\ invoked' = invoked
            /\ committed' = committed
            /\ lastBlock' = lastBlock
            /\ blocks' = blocks]_vars

\* C13 witness: the run failed on the assertion at a block of the height of
\* the watermark, after a block was committed.
C13_Witness ==
    /\ pc = "failed"
    /\ "assertion" \in DOMAIN error
    /\ committed # <<>>
    /\ Head(blocks).header.height = lastBlock
    /\ lastBlock = Last(committed)

\* The handlers of the batch being processed and its current block.
CurHandlers == result[batchIndex].handlers
CurBlock == Head(blocks)

\* The block's transaction has committed: the block was processed in full.
BlockDone == pc = "committed"

\* The positions of the invocations of handler f made through hook k.
Calls(k, f) == {i \in DOMAIN invoked : invoked[i].hook = k /\ invoked[i].handler = f}

\* C14: in a block processed successfully every pre handler of the batch was
\* invoked exactly once and before every item handler, every post handler
\* exactly once and after every item handler, also when the block has no item;
\* no other handler was invoked through the pre or the post hook.
C14_PreAndPostOncePerBlock ==
    BlockDone =>
        /\ \A n \in DOMAIN CurHandlers.pre :
                Cardinality(Calls("pre", CurHandlers.pre[n])) = 1
        /\ \A n \in DOMAIN CurHandlers.post :
                Cardinality(Calls("post", CurHandlers.post[n])) = 1
        /\ Cardinality({i \in DOMAIN invoked : invoked[i].hook = "pre"})
                = Len(CurHandlers.pre)
        /\ Cardinality({i \in DOMAIN invoked : invoked[i].hook = "post"})
                = Len(CurHandlers.post)
        /\ \A i, j \in DOMAIN invoked :
                \/ invoked[i].hook = "pre" /\ invoked[j].hook # "pre"
                \/ invoked[i].hook # "post" /\ invoked[j].hook = "post"
                => i < j

\* C14 witness: a block without items was processed and its two pre handlers
\* and its post handler were invoked.
C14_Witness ==
    /\ BlockDone
    /\ CurBlock.items = <<>>
    /\ Len(CurHandlers.pre) = 2
    /\ Len(CurHandlers.post) = 1
    /\ Len(invoked) = 3

\* C14 witness with items: an event handler was invoked between the pre and
\* the post handler.
C14_WitnessItems ==
    /\ BlockDone
    /\ Len(invoked) >= 3
    /\ invoked[1].hook = "pre"
    /\ invoked[2].hook = "event"
    /\ Last(invoked).hook = "post"

\* The list of a keyed slot under a key (empty when the key is absent).
Under(slot, key) == IF key \in DOMAIN slot THEN slot[key] ELSE <<>>

\* The position of f in a list that holds it.
Idx(list, f) == CHOOSE k \in DOMAIN list : list[k] = f

\* The lists an invocation for an item may come from, in the order claimed:
\* for the generic event hook and the call hook the list under '*' and the
\* list under the item's name, for a specialized hook its list under the
\* event's address or program.
SourceLists(inv, item) ==
    CASE inv.hook = "event" ->
            <<Under(CurHandlers.events, "*"), Under(CurHandlers.events, item.event.name), <<>>>>
      [] inv.hook = "call" ->
            <<HandlersOfEntries(Under(CurHandlers.calls, "*")),
              HandlersOfEntries(Under(CurHandlers.calls, item.call.name)), <<>>>>
      [] inv.hook = "evm-log" ->
            <<<<>>, <<>>, HandlersOfEntries(Under(CurHandlers.evmLogs, item.event.address))>>
      [] inv.hook = "contract-emitted" ->
            <<<<>>, <<>>, Under(CurHandlers.contractsContractEmitted, item.event.contract)>>
      [] inv.hook = "gear-message-enqueued" ->
            <<<<>>, <<>>, Under(CurHandlers.gearMessageEnqueued, item.event.destination)>>
      [] inv.hook = "gear-message-sent" ->
            <<<<>>, <<>>, Under(CurHandlers.gearUserMessageSent, item.event.source)>>

\* Where the handler of an invocation for an item stands: 1 under '*', 2 under
\* the item's name, 3 in a specialized list (0 when in none of them), and its
\* position in that list.
Place(inv) ==
    LET lists == SourceLists(inv, CurBlock.items[inv.item])
        in(k) == \E n \in DOMAIN lists[k] : lists[k][n] = inv.handler
    IN IF in(1) THEN <<1, Idx(lists[1], inv.handler)>>
       ELSE IF in(2) THEN <<2, Idx(lists[2], inv.handler)>>
       ELSE IF in(3) THEN <<3, Idx(lists[3], inv.handler)>>
       ELSE <<0, 0>>

Before(p, q) == p[1] < q[1] \/ (p[1] = q[1] /\ p[2] < q[2])

\* C15: of two invocations for one item the earlier one stands earlier in the
\* order: the list under '*', then the list under the item's name, then the
\* specialized list, and in the order of the list within one list; for an
\* event every handler under '*' and under the event's name is invoked.
C15_DispatchOrder ==
    (pc = "processBlock" \/ BlockDone) =>
        /\ \A i, j \in DOMAIN invoked :
            (i < j /\ invoked[i].item > 0 /\ invoked[i].item = invoked[j].item) =>
                /\ Place(invoked[i])[1] > 0
                /\ Before(Place(invoked[i]), Place(invoked[j]))
        /\ BlockDone =>
            \A n \in DOMAIN CurBlock.items :
                CurBlock.items[n].kind = "event" =>
                    \A k \in {"*", CurBlock.items[n].event.name} :
                        \A f \in Elems(Under(CurHandlers.events, k)) :
                            \E i \in DOMAIN invoked :
                                /\ invoked[i].item = n
                                /\ invoked[i].hook = "event"
                                /\ invoked[i].handler = f

\* C15 witness: for one EVM.Log event a handler under '*', a handler under the
\* name EVM.Log and two EVM log handlers were invoked, in this order.
C15_Witness ==
    /\ BlockDone
    /\ \E i \in DOMAIN invoked :
        /\ i + 3 \in DOMAIN invoked
        /\ \A d \in 1..3 : invoked[i + d].item = invoked[i].item
        /\ Place(invoked[i])[1] = 1
        /\ Place(invoked[i + 1])[1] = 2
        /\ Place(invoked[i + 2]) = <<3, 1>>
        /\ Place(invoked[i + 3]) = <<3, 2>>

\* Some handler of the batch is registered for item n of the current block
\* under '*' or under the item's name (for a call: and is to run for it).
HasGenericHandler(n) ==
    LET item == CurBlock.items[n] IN
    IF item.kind = "event"
    THEN \E k \in {"*", item.event.name} : Under(CurHandlers.events, k) # <<>>
    ELSE \E k \in {"*", item.call.name} :
            \E e \in Elems(Under(CurHandlers.calls, k)) :
                item.call.success \/ e.triggerForFailedCalls

\* C16: the invocations for the items of a block follow the order of the
\* block's item log: an invocation for an item is never followed by one for an
\* earlier item, so that no item is visited twice, and in a block processed in
\* full no item with a handler under '*' or its name was skipped.
C16_ItemsInLogOrder ==
    (pc = "processBlock" \/ BlockDone) =>
        /\ \A i \in DOMAIN invoked :
            invoked[i].item \in DOMAIN CurBlock.items \/ invoked[i].hook \in {"pre", "post"}
        /\ \A i, j \in DOMAIN invoked :
            (i < j /\ invoked[i].item > 0 /\ invoked[j].item > 0) =>
                invoked[i].item <= invoked[j].item
        /\ BlockDone =>
            \A n \in DOMAIN CurBlock.items :
                HasGenericHandler(n) => \E i \in DOMAIN invoked : invoked[i].item = n

\* C16 witness: handlers were invoked for an event, then for a call and then
\* for two more events of one block.
C16_Witness ==
    /\ BlockDone
    /\ Len(CurBlock.items) = 4
    /\ \A n \in 1..4 : \E i \in DOMAIN invoked : invoked[i].item = n
    /\ CurBlock.items[1].kind = "event" /\ CurBlock.items[2].kind = "call"

\* The handlers invoked for item n of the current block, in order.
InvokedFor(n) ==
    LET sel == SelectSeq(invoked, LAMBDA inv : inv.item = n) IN
    [i \in DOMAIN sel |-> sel[i].handler]

\* The call handler entries of the batch registered under '*' and under the
\* name of the call, in list order.
CallEntries(c) == Under(CurHandlers.calls, "*") \o Under(CurHandlers.calls, c.name)

\* C17: for a call item of a block processed in full the handlers invoked are
\* the entries under '*' and the call's name for which the call succeeded or
\* the entry has triggerForFailedCalls set, in list order: all of them for a
\* successful call, exactly the flagged ones for a failed call.
C17_FailedCallFlag ==
    BlockDone =>
        \A n \in DOMAIN CurBlock.items :
            CurBlock.items[n].kind = "call" =>
                LET c == CurBlock.items[n].call IN
                /\ InvokedFor(n) = HandlersOfEntries(
                        SelectSeq(CallEntries(c),
                                  LAMBDA e : c.success \/ e.triggerForFailedCalls))
                /\ \A e \in Elems(CallEntries(c)) :
                        e.handler \in Elems(InvokedFor(n))
                            <=> (c.success \/ e.triggerForFailedCalls)

\* C17 witness: a failed call with two flagged and two unflagged matching
\* entries, for which the two flagged handlers were invoked.
C17_Witness ==
    /\ BlockDone
    /\ \E n \in DOMAIN CurBlock.items :
        /\ CurBlock.items[n].kind = "call"
        /\ ~CurBlock.items[n].call.success
        /\ Len(CallEntries(CurBlock.items[n].call)) = 4
        /\ Len(InvokedFor(n)) = 2

\* The hook invocations of the given kind for item n of the current block.
InvokedOf(kind, n) ==
    LET sel == SelectSeq(invoked, LAMBDA inv : inv.item = n /\ inv.hook = kind) IN
    [i \in DOMAIN sel |-> sel[i].handler]

\* Position i of filter f admits the topics t: f[i] is undefined, or a
\* literal equal to t[i], or a set containing t[i].
Admits(f, t, i) ==
    \/ f[i].kind = "null"
    \/ /\ i <= Len(t)
       /\ \/ f[i].kind = "topic" /\ f[i].value = t[i]
          \/ f[i].kind = "array" /\ t[i] \in f[i].values

ExampleFilter == [sets |-> <<[kind |-> "null"], [kind |-> "topic", value |-> "0xABC"]>>]

C18_WitnessPastEnd ==
    /\ BlockDone
    /\ hooks.evmLog[1].filter = ExampleFilter
    /\ CurBlock.items[1].event.topics = <<"0x1">>
    /\ InvokedOf("evm-log", 1) = <<>>
    /\ InvokedOf("event", 1) = <<2>>

\* The handlers of the hooks of the list registered with contract address a
\* whose filter, if they have one, the log passes.
RegisteredWith(list, a, log) ==
    {hook.handler : hook \in
        {h \in Elems(list) :
            /\ h.argument = a
            /\ "filter" \in DOMAIN h => evmHandlerMatches(h, log)}}

\* C19: for an EVM.Log (a Contracts.ContractEmitted) event of contract
\* address A the specialized handlers invoked are exactly those registered
\* through addEvmLogHandler (addContractsContractEmittedHandler) with the
\* address A that pass the filter, whatever the letter case of A.
C19_HandlersOfAddress ==
    BlockDone =>
        \A n \in DOMAIN CurBlock.items :
            LET e == CurBlock.items[n].event IN
            /\ e.name = "EVM.Log" =>
                    Elems(InvokedOf("evm-log", n))
                        = RegisteredWith(hooks.evmLog, e.address, e)
            /\ e.name = "Contracts.ContractEmitted" =>
                    Elems(InvokedOf("contract-emitted", n))
                        = RegisteredWith(hooks.contractsContractEmitted, e.contract, e)

\* A call of one of the configuration operations.
ConfigCall ==
    \/ SetDataSource \/ SetTypesBundle \/ SetBlockRange \/ SetBatchSize
    \/ SetPrometheusPort \/ AddPreHook \/ AddPostHook \/ AddEventHandler
    \/ AddCallHandler \/ AddEvmLogHandler \/ AddContractsContractEmittedHandler
    \/ AddGearMessageEnqueuedHandler \/ AddGearUserMessageSentHandler

\* C20: once run() was called no step changes the hooks, the block range or
\* another setting, and every configuration call throws the settings error;
\* before run() no configuration call throws it.
C20_NoSettingsAfterRun ==
    [][/\ running => UNCHANGED <<hooks, blockRange, settings>>
       /\ ConfigCall => IF running
                        THEN thrown' = SettingsError
                        ELSE thrown' # SettingsError]_vars

\* C20 witness: a processor configured before run() whose configuration
\* call after run() threw.
C20_Witness ==
    /\ running
    /\ thrown = SettingsError
    /\ hooksCount = MaxConfigRegs
    /\ settings.batchSize = 1
    /\ blockRange = [from |-> 0, to |-> 0]

\* A range is well-formed: its from does not exceed its to.
WellFormed(range) == "to" \in DOMAIN range => range.from <= range.to

\* C21: a range whose from exceeds its to is rejected at registration: the
\* run range and the range of every registered hook are well-formed.
C21_MalformedRangeRejected ==
    /\ WellFormed(blockRange)
    /\ \A hook \in Regs : HasRange(hook) => WellFormed(hook.range)

\* The heights below h of the batches the runner has taken so far.
EarlierBlocks(h) ==
    {k \in 0..ChainHead :
        k < h /\ \E b \in 1..batchIndex : InRange(k, result[b].range)}

\* C22: at most one handler invocation is in progress and a transaction is
\* opened only when none is open and no handler is in progress; while a
\* handler of block h is in progress processBlock is suspended in the open
\* transaction of h, every earlier block is committed and the watermark is
\* the height of the block committed last.
C22_SingleThreaded ==
    /\ [](Cardinality(inflight) <= 1)
    /\ [](inflight # {} =>
            LET h == Head(blocks).header.height IN
            /\ pc = "await"
            /\ tx = [from |-> h, to |-> h]
            /\ \A inv \in inflight : inv.height = h
            /\ Elems(committed) = EarlierBlocks(h)
            /\ lastBlock < h
            /\ lastBlock = IF committed = <<>> THEN StartMark ELSE Last(committed))
    /\ [][(tx' # undefined /\ tx' # tx) => (tx = undefined /\ inflight = {})]_vars

\* C22 witness: the second handler of a block is in progress after an
\* earlier block was committed.
C22_Witness ==
    /\ Cardinality(inflight) = 1
    /\ Len(invoked) = 2
    /\ committed # <<>>
    /\ lastBlock = Last(committed)

\* The heights of the blocks handed to processBatch and not yet done.
HeightsOf(q) == [i \in DOMAIN q |-> q[i].header.height]

\* C23: in a run in which no handler throws and the source delivers blocks
\* of strictly ascending heights above the watermark, every delivered block
\* is eventually committed, the committed heights are strictly ascending (no
\* block twice), processBatch returns with the watermark at the last
\* delivered height and the run ends without an error; for the blocks 10,
\* 11, 12 the watermark ends at 12.
C23_CleanRunCommitsAll ==
    /\ \A h \in CleanHeights :
            (pc = "processBatch" /\ h \in Elems(HeightsOf(blocks)))
                ~> (h \in Elems(committed))
    /\ \A h \in CleanHeights :
            (pc = "processBatch" /\ blocks # <<>> /\ Last(blocks).header.height = h)
                ~> (pc = "done" /\ lastBlock = h /\ Last(committed) = h)
    /\ [](\A i, j \in DOMAIN committed : i < j => committed[i] < committed[j])
    /\ (pc = "processBatch" /\ HeightsOf(blocks) = <<10, 11, 12>>)
            ~> (pc = "finished" /\ lastBlock = 12 /\ committed = <<10, 11, 12>>)
    /\ <>(pc = "finished" /\ error = undefined)

\* C23 witness: the run over the blocks 10, 11, 12 with a hook before and a
\* hook after the block has ended with the watermark at 12.
C23_Witness ==
    /\ pc = "finished"
    /\ Len(hooks.pre) = 1 /\ Len(hooks.post) = 1
    /\ committed = <<10, 11, 12>>
    /\ lastBlock = 12

\* Map z has the keys of x and of y; a key of one side only has that side's
\* list, a key of both sides has x's list followed by y's.
KeyWiseUnion(x, y, z) ==
    /\ DOMAIN z = DOMAIN x \cup DOMAIN y
    /\ \A key \in DOMAIN x \ DOMAIN y : z[key] = x[key]
    /\ \A key \in DOMAIN y \ DOMAIN x : z[key] = y[key]
    /\ \A key \in DOMAIN x \cap DOMAIN y : z[key] = x[key] \o y[key]

\* C24: mergeDataHandlers(a, b) has a's pre and post lists followed by b's;
\* in every keyed slot it has the keys of both, a key of one side only with
\* that side's list unchanged and a key of both sides with a's list followed
\* by b's (for the extrinsics of an event: key by key in the same way).
C24_MergeDataHandlers ==
    pc = "returned" =>
        LET a == args[1]
            b == args[2]
            m == returned.value
        IN
        /\ m.pre = a.pre \o b.pre
        /\ m.post = a.post \o b.post
        /\ KeyWiseUnion(a.events, b.events, m.events)
        /\ KeyWiseUnion(a.evmLogs, b.evmLogs, m.evmLogs)
        /\ DOMAIN m.extrinsics = DOMAIN a.extrinsics \cup DOMAIN b.extrinsics
        /\ \A e \in DOMAIN a.extrinsics \ DOMAIN b.extrinsics :
                m.extrinsics[e] = a.extrinsics[e]
        /\ \A e \in DOMAIN b.extrinsics \ DOMAIN a.extrinsics :
                m.extrinsics[e] = b.extrinsics[e]
        /\ \A e \in DOMAIN a.extrinsics \cap DOMAIN b.extrinsics :
                KeyWiseUnion(a.extrinsics[e], b.extrinsics[e], m.extrinsics[e])

\* C24 witness: a has the key E1, b the keys E1 and E2, both have handlers of
\* extrinsics and logs; the result has both lists under E1 and b's under E2.
C24_Witness ==
    /\ pc = "returned"
    /\ DOMAIN args[1].events = {"E1"}
    /\ DOMAIN args[2].events = {"E1", "E2"}
    /\ returned.value.events["E1"] = <<11, 21>>
    /\ returned.value.events["E2"] = <<29>>
    /\ returned.value.pre = <<11, 21>>
    /\ DOMAIN returned.value.extrinsics = {"E1"}
    /\ DOMAIN returned.value.extrinsics["E1"] = {"X1", "X2"}
    /\ returned.value.extrinsics["E1"]["X1"] = <<11, 21>>
    /\ DOMAIN returned.value.evmLogs = {"0xa"}
    /\ Len(returned.value.evmLogs["0xa"]) = 2

\* The number of times x occurs in list q.
Occurrences(q, x) == Cardinality({i \in DOMAIN q : q[i] = x})

\* Lists p and q hold the same elements the same number of times.
SameBag(p, q) ==
    \A x \in Elems(p) \cup Elems(q) : Occurrences(p, x) = Occurrences(q, x)

\* Maps x and y have the same keys and per key the same multiset of handlers.
SameBags(x, y) ==
    /\ DOMAIN x = DOMAIN y
    /\ \A key \in DOMAIN x : SameBag(x[key], y[key])

\* C26: merge(merge(a, b), c) and merge(a, merge(b, c)) are identical, key
\* sets and handler lists in every slot; merge(a, b) and merge(b, a) have the
\* same key sets and per key the same multiset of handlers.
C26_MergeAssociative ==
    pc = "grouped" =>
        /\ returned.left = returned.right
        /\ \A slot \in {"pre", "post"} : SameBag(returned.ab[slot], returned.ba[slot])
        /\ \A slot \in {"events", "evmLogs"} :
                SameBags(returned.ab[slot], returned.ba[slot])
        /\ DOMAIN returned.ab.extrinsics = DOMAIN returned.ba.extrinsics
        /\ \A e \in DOMAIN returned.ab.extrinsics :
                SameBags(returned.ab.extrinsics[e], returned.ba.extrinsics[e])

\* C26 witness: a, b and c all have handlers of E1 and of the extrinsics of
\* E1; both groupings list them in the order a, b, c while merge(a, b) and
\* merge(b, a) differ in order only.
C26_Witness ==
    /\ pc = "grouped"
    /\ "E1" \in DOMAIN returned.left.events
    /\ returned.left.events["E1"] = <<11, 21, 31>>
    /\ returned.right.events["E1"] = <<11, 21, 31>>
    /\ returned.left.pre = <<11, 21, 31>>
    /\ DOMAIN returned.left.extrinsics = {"E1"}
    /\ returned.left.extrinsics["E1"] = ("X1" :> <<11, 21>>) @@ ("X2" :> <<21, 31>>)
    /\ returned.ab.events["E1"] = <<11, 21>>
    /\ returned.ba.events["E1"] = <<21, 11>>

\* The content of the array or object r of store st, followed through its
\* references down to the handlers.
RECURSIVE Content(_, _)
Content(st, r) ==
    IF "list" \in DOMAIN st[r] THEN st[r].list
    ELSE [key \in DOMAIN st[r].map |-> Content(st, st[r].map[key])]

\* C25: merging mutates no input: no step changes an array or an object
\* that exists, and the handlers of the input batches, with every list and
\* key map in them, have the content they had before the sweep.
C25_MergeLeavesInputs ==
    /\ [][\A r \in DOMAIN store : store'[r] = store[r]]_vars
    /\ [](\A r \in DOMAIN args.before : store[r] = args.before[r])
    /\ [](\A d \in args.inputs : Content(store, d) = Content(args.before, d))

\* C25 witness: two merges were made, and the result of the second has a
\* concatenated pre list and shares an event list with an input.
C25_Witness ==
    /\ pc = "merge"
    /\ Cardinality(args.pool) = Cardinality(args.inputs) + 2
    /\ \E d \in args.pool \ args.inputs, e \in args.inputs :
        /\ Len(Content(store, d).pre) = 2
        /\ store[d].map.events # store[e].map.events
        /\ \E key \in DOMAIN store[store[d].map.events].map :
            /\ key \in DOMAIN store[store[e].map.events].map
            /\ store[store[d].map.events].map[key] = store[store[e].map.events].map[key]

\* The heights that tell the ranges of the calls apart: every bound, and one
\* height above them all for the ranges without to.
Heights == 0..(MaxBound + 1)

\* h is in the result of an intersection.
InResult(h, i) == i # undefined /\ InRange(h, i)

\* C27: the intersection of a and b begins at the larger from and ends at
\* the smaller to, a missing to counting as no end; it is none exactly when
\* that beginning is above that end; it is the same for (b, a); it contains a
\* height iff a and b both do; ranges that follow one another are disjoint
\* and ranges that share their end height intersect in that height.
C27_IntersectionExact ==
    /\ pc = "intersected" =>
        LET a == args[1]
            b == args[2]
            i == returned.value
            beg == Max(a.from, b.from)
            ends == {r.to : r \in {q \in {a, b} : HasTo(q)}}
            none == \E e \in ends : beg > e
        IN /\ (i = undefined) <=> none
           /\ i # undefined =>
                /\ i.from = beg
                /\ HasTo(i) <=> ends # {}
                /\ HasTo(i) => i.to \in ends /\ \A e \in ends : i.to <= e
           /\ returned.swapped = i
           /\ \A h \in Heights : InResult(h, i) <=> InRange(h, a) /\ InRange(h, b)
           /\ HasTo(a) /\ a.to + 1 = b.from => i = undefined
           /\ HasTo(a) /\ a.to = b.from => InResult(b.from, i) /\ i.to = b.from
    /\ rangeIntersection([from |-> 0, to |-> 9], [from |-> 10, to |-> 19]) = undefined
    /\ rangeIntersection([from |-> 0, to |-> 10], [from |-> 10, to |-> 19])
            = [from |-> 10, to |-> 10]

\* C27 witness: two ranges of more than one height that share one height.
C27_Witness ==
    /\ pc = "intersected"
    /\ HasTo(args[1]) /\ args[1].from < args[1].to
    /\ args[1].to = args[2].from
    /\ HasTo(args[2]) => args[2].from < args[2].to
    /\ returned.value = [from |-> args[2].from, to |-> args[2].from]

\* C28: the difference of a and b is at most two ranges with from <= to, no
\* two of them sharing a height and none sharing one with b, that together
\* with the intersection hold exactly the heights of a; it is empty when b
\* covers a.
C28_DifferencePartitions ==
    pc = "subtracted" =>
        LET a == args[1]
            b == args[2]
            d == returned.value
            i == returned.intersection
        IN /\ Len(d) <= 2
           /\ \A k \in DOMAIN d : WellFormed(d[k])
           /\ \A k \in DOMAIN d : \A l \in DOMAIN d :
                k # l => \A h \in Heights : ~(InRange(h, d[k]) /\ InRange(h, d[l]))
           /\ \A k \in DOMAIN d : \A h \in Heights : InRange(h, d[k]) => ~InRange(h, b)
           /\ \A h \in Heights :
                InRange(h, a) <=> \/ \E k \in DOMAIN d : InRange(h, d[k])
                                 \/ InResult(h, i)
           /\ \A k \in DOMAIN d : \A h \in Heights : ~(InRange(h, d[k]) /\ InResult(h, i))
           /\ (\A h \in Heights : InRange(h, a) => InRange(h, b)) => d = <<>>

\* C28 witness: b lies inside a and leaves a remainder on both sides.
C28_Witness ==
    /\ pc = "subtracted"
    /\ Len(returned.value) = 2
    /\ returned.value[1].to + 1 = args[2].from
    /\ args[2].to + 1 = returned.value[2].from

\* C29: for a list of batches sorted by from that do not overlap and a chain
\* height H >= 0, getBlocksCount is the number of heights 0..H that some
\* batch range contains; a batch that begins above H adds nothing and a batch
\* without to that begins at or below H adds H - from + 1.
C29_BlocksCount ==
    pc = "counted" =>
        LET list == args.batches
            H == args.chainHeight
            added(i) == returned.partial[i] - returned.partial[i - 1]
        IN /\ returned.value
                = Cardinality({h \in 0..H : \E i \in DOMAIN list : InRange(h, list[i].range)})
           /\ returned.value = returned.partial[Len(list)]
           /\ \A i \in DOMAIN list :
                /\ list[i].range.from > H => added(i) = 0
                /\ ~HasTo(list[i].range) /\ list[i].range.from <= H
                        => added(i) = H - list[i].range.from + 1

\* C29 witness: a batch that ends below the chain height, a gap, and a batch
\* without to that begins below the chain height.
C29_Witness ==
    /\ pc = "counted"
    /\ Len(args.batches) = 2
    /\ args.batches[1].range.to + 1 < args.batches[2].range.from
    /\ ~HasTo(args.batches[2].range)
    /\ args.batches[2].range.from < args.chainHeight
    /\ returned.value = args.chainHeight - 1

\* C30: a hook registered without range counts as registered from 0 with no
\* end: its handler is in every batch createBatches returns, and the batches
\* cover every height of the run range.
C30_NoRangeIsEverywhere ==
    Done =>
        \A r \in Regs :
            ~HasRange(r) =>
                /\ \A i \in DOMAIN result : r.handler \in HandlerIds(result[i].handlers)
                /\ \A h \in Probe :
                    InRun(h) => \E i \in DOMAIN result : InRange(h, result[i].range)

\* C30 witness: a hook without range and a hook with a range that ends inside
\* a run range which begins above 0; two batches are returned.
C30_Witness ==
    /\ Done
    /\ blockRange # undefined
    /\ blockRange.from > 0
    /\ Len(result) = 2
    /\ \E r, q \in Regs :
        /\ ~HasRange(r)
        /\ HasRange(q)
        /\ r.handler \in HandlerIds(result[1].handlers)
        /\ r.handler \in HandlerIds(result[2].handlers)
        /\ q.handler \notin HandlerIds(result[2].handlers)

\* ===================================================================
\* Properties of the steps of the sweep
\* ===================================================================
\* The heights of Probe in the ranges of the entries of S, counted once for
\* every entry that holds them.
RECURSIVE Weight(_)
Weight(S) ==
    IF S = {} THEN 0
    ELSE LET e == CHOOSE x \in S : TRUE IN
         Cardinality({h \in Probe : InRange(h, e.range)}) + Weight(S \ {e})

C32_ShortListAsIs ==
    (pc # "start" /\ Len(batches) <= 1) =>
        /\ Done
        /\ result = batches
        /\ result = singletonBatches(hooks, blockRange)
        /\ heap = {}
        /\ top = undefined
        /\ union = <<>>

\* C32 witness: of two registrations the run range left one batch, which
\* was returned.
C32_Witness ==
    /\ Done
    /\ Cardinality(Regs) = 2
    /\ Len(batches) = 1
    /\ result = batches
    /\ HasTo(result[1].range)

\* The entries an intersecting step with the peeked batch adds to the heap.
Pushed(batch) == pushSplit(heap, batch, top) \ HeapPop(heap, batch)

\* C33: an intersecting step pushes at most three entries: top begins at or
\* below the peeked batch, so the batch leaves no piece before the
\* intersection, at most one of the two leaves a piece after it, and the
\* merged intersection is the third; every entry pushed has from <= to and
\* begins at or above top.
C33_AtMostThreePushes ==
    pc = "merge" =>
        \A batch \in HeapMin(heap) :
            ~noIntersection(top, batch) =>
                LET x == rangeIntersection(top.range, batch.range)
                    ofTop == rangeDifference(top.range, x)
                    ofBatch == rangeDifference(batch.range, x)
                    after(d) == {k \in DOMAIN d : d[k].from > x.from}
                IN /\ top.range.from <= batch.range.from
                   /\ Len(ofTop) + Len(ofBatch) + 1 <= 3
                   /\ \A k \in DOMAIN ofBatch : ofBatch[k].from > x.from
                   /\ after(ofTop) = {} \/ after(ofBatch) = {}
                   /\ Cardinality(Pushed(batch)) <= 3
                   /\ \A e \in Pushed(batch) :
                        WellFormed(e.range) /\ e.range.from >= top.range.from

\* C33 witness: a step has split a top without to around a batch of one
\* height and left three entries.
C33_Witness ==
    /\ pc = "merge"
    /\ Len(batches) = 2
    /\ union = <<>>
    /\ Cardinality(heap) = 2
    /\ HasTo(top.range)
    /\ \E e \in heap : ~HasTo(e.range)
    /\ \E e \in heap : Cardinality(HandlerIds(e.handlers)) = 2

\* Some entry of S holds the height h.
Covers(S, h) == \E e \in S : InRange(h, e.range)

\* C34: at every step of the loop every finalized batch ends below the
\* beginning of top and of every heap entry, and the finalized batches, top
\* and the heap entries together hold exactly the heights of the input
\* batches.
C34_SweepInvariant ==
    pc = "merge" =>
        LET heights == Probe
            open == heap \cup {top}
        IN /\ \A i \in DOMAIN union : \A e \in open :
                HasTo(union[i].range) /\ union[i].range.to < e.range.from
           /\ \A h \in heights :
                Covers(Elems(union) \cup open, h) <=> Covers(Elems(batches), h)

\* C34 witness: one batch is finalized, top is a piece of a split and the
\* heap holds another piece.
C34_Witness ==
    /\ pc = "merge"
    /\ Len(batches) = 3
    /\ Len(union) = 1
    /\ heap # {}
    /\ top \notin Elems(batches)
    /\ \E e \in heap : e \notin Elems(batches)

\* The list s holds no element twice.
NoRepeat(s) == Len(s) = Cardinality(Elems(s))

\* The lists of handlers of the DataHandlers dh, one for every slot and key.
ListsOf(dh) ==
    {dh.pre, dh.post}
    \cup {dh.events[k] : k \in DOMAIN dh.events}
    \cup UNION {{dh.extrinsics[e][x] : x \in DOMAIN dh.extrinsics[e]} :
                    e \in DOMAIN dh.extrinsics}
    \cup {[i \in DOMAIN dh.evmLogs[a] |-> dh.evmLogs[a][i].handler] :
                    a \in DOMAIN dh.evmLogs}

\* No list of the DataHandlers dh holds a handler twice.
HandlersOnce(dh) == \A s \in ListsOf(dh) : NoRepeat(s)

\* C35: throughout the sweep the pieces that carry the handler of one
\* registration (finalized batches, top, heap entries) have pairwise disjoint
\* ranges: no two pieces are one and the same entry, a step never merges two
\* pieces with a handler in common, and no list of any piece or of any
\* returned batch holds a handler twice.
C35_NoHandlerTwice ==
    /\ pc = "merge" =>
        LET pieces == Elems(union) \cup {top} \cup heap
            ids == [p \in pieces |-> HandlerIds(p.handlers)]
        IN
        /\ Cardinality(pieces) = Len(union) + 1 + Cardinality(heap)
        /\ \A p \in pieces : \A q \in pieces \ {p} :
            ids[p] \cap ids[q] # {} => rangeIntersection(p.range, q.range) = undefined
        /\ \A p \in pieces : HandlersOnce(p.handlers)
        /\ \A batch \in HeapMin(heap) :
            ~noIntersection(top, batch) =>
                LET x == rangeIntersection(top.range, batch.range) IN
                /\ HandlerIds(top.handlers) \cap HandlerIds(batch.handlers) = {}
                /\ Cardinality(pushSplit(heap, batch, top))
                        = Cardinality(heap) + Len(rangeDifference(top.range, x))
                            + Len(rangeDifference(batch.range, x))
    /\ Done =>
        /\ \A i \in DOMAIN result : HandlersOnce(result[i].handlers)
        /\ \A i \in DOMAIN result : \A j \in DOMAIN result :
            (i # j /\ HandlerIds(result[i].handlers) \cap HandlerIds(result[j].handlers) # {})
                => rangeIntersection(result[i].range, result[j].range) = undefined

\* C35 witness: three overlapping registrations were swept into batches, one
\* with all three handlers, and one registration is carried by two batches.
C35_Witness ==
    /\ Done
    /\ Len(batches) = 3
    /\ \E i \in DOMAIN result : Cardinality(HandlerIds(result[i].handlers)) = 3
    /\ \E i, j \in DOMAIN result :
        i # j /\ HandlerIds(result[i].handlers) \cap HandlerIds(result[j].handlers) # {}

\* ===================================================================
\* Properties of the specialized handlers
\* ===================================================================
\* The hook of the specialized handlers of events of the given name, if any.
SpecializedHooks(name) ==
    CASE name = "EVM.Log" -> {"evm-log"}
      [] name = "Contracts.ContractEmitted" -> {"contract-emitted"}
      [] name = "Gear.MessageEnqueued" -> {"gear-message-enqueued"}
      [] name = "Gear.UserMessageSent" -> {"gear-message-sent"}
      [] OTHER -> {}

\* The specialized hooks through which a handler was invoked for item n.
HooksInvokedFor(n) ==
    {invoked[i].hook : i \in {j \in DOMAIN invoked : invoked[j].item = n}}
        \ {"pre", "post", "event", "call"}

\* C36: for an event item handlers of at most one specialized kind are
\* invoked, that of the event's name, and none when the name is not one of
\* the four, whatever specialized handlers are registered and whatever
\* arguments the event carries.
C36_OneSpecializedKind ==
    pc \in {"processBlock", "committed"} =>
        \A n \in DOMAIN CurBlock.items :
            /\ Cardinality(HooksInvokedFor(n)) <= 1
            /\ HooksInvokedFor(n) \subseteq SpecializedHooks(CurBlock.items[n].event.name)

\* C36 witness: with a specialized handler of every kind registered a block
\* was processed in which an event of an ordinary name that carries every
\* argument got no specialized handler and an EVM log got its own only.
C36_Witness ==
    /\ BlockDone
    /\ Len(hooks.evmLog) = 1 /\ Len(hooks.contractsContractEmitted) = 1
    /\ Len(hooks.gearMessageEnqueued) = 1 /\ Len(hooks.gearUserMessageSent) = 1
    /\ Len(CurBlock.items) = 2
    /\ CurBlock.items[1].event.name = "E1"
    /\ CurBlock.items[2].event.name = "EVM.Log"
    /\ HooksInvokedFor(1) = {}
    /\ HooksInvokedFor(2) = {"evm-log"}

\* ===================================================================
\* Properties of the phases of the processor
\* ===================================================================
\* C37: running goes from false to true in the first call of run(), which
\* starts the runner, and never back; the processor is configuring exactly
\* while it is not running; a later call of run() changes nothing and
\* starts no runner, so the batches of a run are created at most once.
C37_OneWayPhase ==
    /\ [][running => running']_vars
    /\ [][(~running /\ running') => (pc = "config" /\ pc' = "start")]_vars
    /\ [][(pc' = "start" /\ pc # "start") => ~running]_vars
    /\ [][running => (pc' # "start" \/ pc = "start")]_vars
    /\ [](running <=> pc # "config")
    /\ [](calls <= 1)

\* C37 witness: the run has ended, with blocks committed, on a processor
\* that is still running and whose batches were created once.
C37_Witness ==
    /\ pc = "finished"
    /\ running
    /\ calls = 1
    /\ committed # <<>>

\* ===================================================================
\* Properties of the watermark and the commits of processBatch
\* ===================================================================
\* The highest of the committed heights, when there is one.
HighestCommitted ==
    CHOOSE h \in {committed[i] : i \in DOMAIN committed} :
        \A i \in DOMAIN committed : committed[i] <= h

\* The watermark before the block committed last.
MarkBeforeLast ==
    IF Len(committed) = 1 THEN StartMark ELSE committed[Len(committed) - 1]

\* C38 as stated: whenever no transaction is open and no error has occurred,
\* the watermark is the highest committed height of the run.
C38_MarkIsHighestCommitted ==
    (pc # "config" /\ tx = undefined /\ error = undefined /\ committed # <<>>)
        => lastBlock = HighestCommitted

\* C38: during the run the watermark is at most the highest committed
\* height, and the start value while nothing is committed; an open
\* transaction has the key (height, height) of the current block, whose
\* height is above the watermark and not committed; the committed heights
\* ascend strictly, so none is committed twice; in the state after the commit
\* of a block and before the assignment of the watermark no transaction is
\* open, no error has occurred and the watermark is that of the block
\* before, below the highest committed height; in every other state without
\* an open transaction the watermark is the highest committed height.
C38_WatermarkAndCommits ==
    pc # "config" =>
        /\ committed = <<>> => lastBlock = StartMark
        /\ committed # <<>> => lastBlock <= HighestCommitted
        /\ tx # undefined =>
                /\ pc = "processBlock"
                /\ tx = [from |-> CurBlock.header.height, to |-> CurBlock.header.height]
                /\ lastBlock < tx.to
                /\ \A i \in DOMAIN committed : committed[i] < tx.to
        /\ \A i, j \in DOMAIN committed : i < j => committed[i] < committed[j]
        /\ pc = "committed" =>
                /\ tx = undefined
                /\ error = undefined
                /\ HighestCommitted = CurBlock.header.height
                /\ lastBlock = MarkBeforeLast
                /\ lastBlock < HighestCommitted
        /\ (pc # "committed" /\ tx = undefined /\ committed # <<>>)
                => lastBlock = HighestCommitted

\* C38 witness: the second block of the run has been committed and the
\* watermark, not yet assigned, is the height of the first, with no
\* transaction open and no error.
C38_Witness ==
    /\ pc = "committed"
    /\ tx = undefined
    /\ error = undefined
    /\ Len(committed) = 2
    /\ lastBlock = committed[1]
    /\ committed[2] > committed[1] + 1

====
